---------------------------- MODULE Spec2Model ----------------------------
(***************************************************************************)
(* A model of kaltura_uploader: one orchestrated run of the uploader as    *)
(* cli.main drives it (construct, upload_file, create_kaltura_entry,       *)
(* assign_category), with the remote service, the file system, the MIME    *)
(* sniffer and the clock as the environment.                               *)
(*                                                                         *)
(* Numbers: chunk_size_kb is a Python float; it is modelled as an exact    *)
(* rational <<numerator, denominator>> (denominator > 0, lowest terms).    *)
(* Times are whole seconds.                                                *)
(***************************************************************************)
EXTENDS Integers, Sequences, FiniteSets, TLC

(***************************************************************************)
(* Bounds of the model.                                                    *)
(***************************************************************************)
\* A file is at most MaxChunks initial-size chunks long (adaptive chunking
\* off), or MaxAdaptiveChunks (adaptive chunking on).
MaxChunks ==
    5
MaxAdaptiveChunks ==
    2
\* At most MaxFailures chunk attempts of one run end with a retryable error.
MaxFailures ==
    5
\* The retry decorator is tried with max_attempts up to MaxRetryAttempts.
MaxRetryAttempts ==
    3
\* The classifier is tried with MIME types of up to MaxMimePieces pieces.
MaxMimePieces ==
    3
\* A log message template, and a formatting argument, has up to MaxLogPieces pieces.
MaxLogPieces ==
    3
\* One uploader is given up to MaxUploads upload_file calls.
MaxUploads ==
    2

(***************************************************************************)
(* Program constants.                                                      *)
(***************************************************************************)
\* bytes per KB: int(self.chunk_size_kb * 1024)
KB ==
    1024
\* @retry(..., max_attempts=5) on _upload_chunk
max_attempts ==
    5
\* retry(initial_delay=1.0)
initial_delay ==
    1
\* retry(backoff_factor=2.0)
backoff_factor ==
    2
\* _finalize_upload_token: max_attempts = 5
finalize_max_attempts ==
    5
\* _finalize_upload_token: delay = 1.0
finalize_delay ==
    1
\* KalturaUploadTokenStatus values of the Kaltura client, by name
PARTIAL_UPLOAD ==
    "PARTIAL_UPLOAD"
FULL_UPLOAD ==
    "FULL_UPLOAD"

(***************************************************************************)
(* Rational arithmetic for the float chunk_size_kb.                        *)
(***************************************************************************)
Abs(x) ==
    IF x < 0 THEN -x ELSE x

RECURSIVE GCD(_, _)
GCD(a, b) ==
    IF b = 0 THEN a ELSE GCD(b, a % b)

Rat(n, d) ==
    LET s == IF d < 0 THEN -1 ELSE 1
        g == GCD(Abs(n), Abs(d))
    IN  <<(s * n) \div g, (s * d) \div g>>

\* a + b over the least common denominator
RatAdd(a, b) ==
    LET l == (a[2] \div GCD(a[2], b[2])) * b[2]
    IN  Rat(a[1] * (l \div a[2]) + b[1] * (l \div b[2]), l)

\* a * b, cancelling across before multiplying
RatMul(a, b) ==
    LET g1 == GCD(Abs(a[1]), b[2])
        g2 == GCD(Abs(b[1]), a[2])
    IN  Rat((a[1] \div g1) * (b[1] \div g2), (a[2] \div g2) * (b[2] \div g1))

RatLeq(a, b) ==
    LET l == (a[2] \div GCD(a[2], b[2])) * b[2]
    IN  a[1] * (l \div a[2]) <= b[1] * (l \div b[2])

\* Python max(a, b) and min(a, b) on numbers
RatMax(a, b) ==
    IF RatLeq(b, a) THEN a ELSE b

RatMin(a, b) ==
    IF RatLeq(a, b) THEN a ELSE b

\* Python int(x): truncation toward zero
RatInt(a) ==
    IF a[1] >= 0 THEN a[1] \div a[2] ELSE -((-a[1]) \div a[2])


(***************************************************************************)
(* State.                                                                  *)
(***************************************************************************)
VARIABLES
    pc,                \* position in main / upload_file / create_kaltura_entry
    cfg,               \* the constructor arguments of KalturaUploader
    file,              \* the file at file_path: kind, size (getsize), avail (bytes a read can get)
    chunk_size_kb,     \* self.chunk_size_kb (rational)
    chunk_size_bytes,  \* self.chunk_size_bytes
    offset,            \* upload_file: offset
    chunk,             \* the arguments of the running _upload_chunk call
    sent,              \* the _upload_chunk calls made so far, in order
    acked,             \* how many chunks the remote service has accepted (a post that succeeded)
    attempt,           \* retry.wrapper: attempt / _finalize_upload_token: attempt
    delay,             \* retry.wrapper: delay / _finalize_upload_token: delay
    slept,             \* the delays given to time.sleep by the running operation
    inflight,          \* indexes (into sent) of chunk requests posted and not yet answered
    elapsed,           \* upload_file: elapsed, from its assignment to the next loop test
    send_time,         \* how long the attempt of _upload_chunk that returned took
    failures,          \* how many chunk attempts of the transfer have ended with a retryable error
    refreshed,         \* _finalize_upload_token replaced self.client by a new session
    last_exception,    \* _finalize_upload_token: last_exception (NoError for None)
    token,             \* _finalize_upload_token: the token its last successful get returned
    npolls,            \* how many uploadToken.get calls _finalize_upload_token has made
    pollKinds,         \* the kinds of answer those calls got: "status", or the error raised
    finalized,         \* how upload_file came to return: "no", "polled" or "auto"
    path,              \* file_path as create_kaltura_entry sees it: extension, MIME guesses
    refetched,         \* the answer to create_kaltura_entry's status re-fetch
    response,          \* what the create-entry request was answered with
    token_deleted,     \* the remote service has finalized the token and deleted it
    rp,                \* the arguments of the retry decorator in use
    history,           \* what each invocation of the decorated function did (sent), in order
    invoked,           \* how often the wrapper in progress has invoked the function
    ret,               \* what the wrapper returned or raised
    calls,             \* the remote calls of the run in order, a repeated call listed once
    entry_type,        \* create_kaltura_entry: entry_type
    mime_type,         \* create_kaltura_entry: mime_type
    subcalls,          \* the _create_*_entry calls made, in order
    entry_id,          \* create_kaltura_entry's return value
    category,          \* what became of the category assignment
    entry_args,        \* create_kaltura_entry's tags, access_control_id, conversion_profile_id
    payload,           \* the data of the create-entry request, by key
    uploads,           \* how many upload_file calls this uploader has returned from before the current one
    other,             \* chunk_size_kb and chunk_size_bytes of a second uploader of the process
    record,            \* the logging.LogRecord in hand: msg (the template) and args
    logfile,           \* the messages written to the JSON log file, in order
    err,               \* the exception that ended the run, or NoError
    result             \* main's return value, or "running"

transferVars == <<offset, chunk, sent, acked, inflight, elapsed, send_time, failures>>
retryVars == <<attempt, delay, slept>>
sizeVars == <<chunk_size_kb, chunk_size_bytes>>
finalizeVars == <<refreshed, last_exception, token, npolls, pollKinds, finalized>>
entryVars == <<path, refetched, response, entry_type, mime_type, subcalls, entry_id, category,
              entry_args, payload>>
wrapVars == <<rp, history, invoked, ret>>
logVars == <<record, logfile>>
instanceVars == <<uploads, other>>
runVars == <<logVars, cfg, instanceVars, file, token_deleted, calls, sizeVars, transferVars, finalizeVars,
             entryVars, err, result>>
vars == <<pc, wrapVars, retryVars, runVars>>

(***************************************************************************)
(* Inputs.                                                                 *)
(***************************************************************************)
\* Constructor configurations, all with the default min/max of
\* uploader.py:66-67 unless said: a 1 KB chunk and the CLI's default 2 MB
\* chunk, adaptive chunking off; adaptive chunking within [1 KB, 2 KB];
\* adaptive chunking with min = max = 0, which __init__ accepts as well;
\* and chunk_size_kb = 0, which __init__ rejects.
Configs ==
    { [chunk_size_kb |-> 1, adaptive_chunking |-> FALSE, target_upload_time |-> 5,
       min_chunk_size_kb |-> 1024, max_chunk_size_kb |-> 102400],
      [chunk_size_kb |-> 2048, adaptive_chunking |-> FALSE, target_upload_time |-> 5,
       min_chunk_size_kb |-> 1024, max_chunk_size_kb |-> 102400],
      [chunk_size_kb |-> 1, adaptive_chunking |-> TRUE, target_upload_time |-> 5,
       min_chunk_size_kb |-> 1, max_chunk_size_kb |-> 2],
      [chunk_size_kb |-> 1, adaptive_chunking |-> TRUE, target_upload_time |-> 5,
       min_chunk_size_kb |-> 0, max_chunk_size_kb |-> 0],
      [chunk_size_kb |-> 0, adaptive_chunking |-> FALSE, target_upload_time |-> 5,
       min_chunk_size_kb |-> 1024, max_chunk_size_kb |-> 102400] }

\* File sizes tried with a configuration whose initial chunk is c bytes.
FileSizes(c, m) ==
    {0, 1} \cup {k * c : k \in 1..m} \cup {k * c + c \div 2 : k \in 0..(m - 1)}

\* What a reader gets from a file whose getsize() said n: all of it, less
\* (truncated after getsize), or more (appended to after getsize).
AvailSizes(n) ==
    {n, n \div 2, n + 1}

Files ==
    { [kind |-> k, size |-> 0, avail |-> 0] : k \in {"missing", "dir"} }

\* Seconds the attempt of _upload_chunk that returns takes, as the clock
\* time.time() reads them; that clock is not monotonic, so a negative
\* reading is possible. An attempt that raises takes no time.
NetDurations ==
    {-1, 0, 1, 3}

\* A MIME type is the sequence of the pieces of its text, so that a prefix
\* and a substring are a prefix and a subsequence of pieces; None and the
\* empty string are the empty sequence.
None == <<>>

\* Files by extension, with what mimetypes.guess_type makes of the name and
\* what the content is (what magic.from_file answers when it answers).
FileTypes ==
    { [ext |-> ".mp4", guessed |-> <<"video/", "mp4">>, content |-> <<"video/", "mp4">>],
      [ext |-> ".pdf", guessed |-> <<"application/", "pdf">>, content |-> <<"application/", "pdf">>],
      [ext |-> ".html", guessed |-> <<"text/", "html">>, content |-> <<"text/", "html">>],
      [ext |-> ".xyz", guessed |-> None, content |-> <<"video/", "mp4">>] }

\* What magic.from_file(file_path, mime=True) does: it answers, or raises
\* OSError (IOError, FileNotFoundError) or magic.MagicException.
SniffOutcomes ==
    {"answers", "OSError", "MagicException"}

NoPath == [ext |-> "", guessed |-> None, content |-> None, sniff |-> "", has_magic |-> FALSE]

NoError == [type |-> "none", code |-> "", args |-> <<>>, cause |-> "none"]
NoChunk == [offset |-> -1, len |-> 0, resume |-> FALSE, final |-> FALSE]
NoAnswer == [status |-> "", error |-> "none"]
NoReturn == [kind |-> "none", value |-> "", error |-> NoError]
NoResponse == [kind |-> "none", id |-> "", body |-> 0]
NoToken == [status |-> "", uploadedFileSize |-> -1]
NoPayload == [service |-> "none"]
NoUploader == [chunk_size_kb |-> Rat(0, 1), chunk_size_bytes |-> -1]

\* create_kaltura_entry's optional arguments. Tags are the pieces of the
\* comma-separated string, None and the empty string, both falsy, being the
\* empty sequence; the ids are integers (cli.py: type=int).
Tags ==
    {None, <<"news">>, <<"news", ",2024">>}

AccessControlIds ==
    {-1, 0, 1, 7}

ConversionProfileIds ==
    {-1, 0, 1, 7}

EntryArgs ==
    [tags : Tags, access_control_id : AccessControlIds,
     conversion_profile_id : ConversionProfileIds]

\* The command line's defaults: --tags "", --access_control_id 0,
\* --conversion_profile_id 0
DefaultArgs ==
    [tags |-> None, access_control_id |-> 0, conversion_profile_id |-> 0]
NoRecord == [msg |-> <<>>, args |-> <<>>]

(***************************************************************************)
(* Exceptions.                                                             *)
(***************************************************************************)
Exc(t) == [type |-> t, code |-> "", args |-> <<>>, cause |-> "none"]
KalturaException(code) ==
    [type |-> "KalturaException", code |-> code, args |-> <<>>, cause |-> "none"]

\* "UPLOAD_TOKEN_NOT_FOUND" in str(e)
IsTokenNotFound(e) ==
    e.type = "KalturaException" /\ e.code = "UPLOAD_TOKEN_NOT_FOUND"

(***************************************************************************)
(* The retry decorator (decorators.py).                                    *)
(***************************************************************************)
\* The exception classes at play with their base classes, themselves
\* included: requests' ConnectionError is a RequestException, which is an
\* IOError, that is an OSError.
Bases(t) ==
    CASE t = "ConnectionError" -> {"ConnectionError", "RequestException", "OSError"}
      [] t = "RequestException" -> {"RequestException", "OSError"}
      [] OTHER -> {t}

\* Arguments the decorator is tried with
RetryParams ==
    [exceptions : {{}, {"RequestException"}, {"OSError"}},
     max_attempts : 0..MaxRetryAttempts,
     initial_delay : {0, 1, 3},
     backoff_factor : {1, 2, 3}]

\* @retry((requests.exceptions.RequestException,), max_attempts=5) with four attempts
ChunkRetry_FourAttempts ==
    [exceptions |-> {"RequestException"}, max_attempts |-> max_attempts - 1,
     initial_delay |-> initial_delay, backoff_factor |-> backoff_factor]

\* @retry((requests.exceptions.RequestException,), max_attempts=5) on
\* _upload_chunk, the other arguments at their defaults
ChunkRetry ==
    [exceptions |-> {"RequestException"}, max_attempts |-> max_attempts,
     initial_delay |-> initial_delay, backoff_factor |-> backoff_factor]

\* except exceptions as e: whether the clause catches e
Caught(p, e) ==
    e # NoError /\ Bases(e.type) \cap p.exceptions # {}

\* except Exception as e
RetryVerdict_CatchesAll(p, e, n) ==
    IF e = NoError THEN "return"
    ELSE IF n = p.max_attempts THEN "raise"
    ELSE "sleep"

\* The wrapper without the raise of the last attempt
RetryVerdict_NoRaise(p, e, n) ==
    IF e = NoError THEN "return"
    ELSE IF Caught(p, e) THEN "sleep"
    ELSE "raise"

\* wrapper, lines 29-42: what becomes of attempt n of the function when it
\* ended with e (NoError: it returned): the wrapper returns, it sleeps and
\* goes round the loop, or the error propagates.
RetryVerdict(p, e, n) ==
    IF e = NoError THEN "return"
    ELSE IF Caught(p, e) /\ n # p.max_attempts THEN "sleep"
    ELSE "raise"

\* delay += backoff_factor
NextDelay_Additive(p, d) ==
    d + p.backoff_factor

\* delay *= backoff_factor
NextDelay(p, d) ==
    d * p.backoff_factor

\* except exceptions as e, with exceptions = (requests.exceptions.RequestException,)
Retryable(e) ==
    Caught(ChunkRetry, e)

(***************************************************************************)
(* Pure functions of the uploader.                                         *)
(***************************************************************************)
\* infile.read() without the size: the rest of the file at once
ReadLen_All(n, pos, avail) ==
    IF avail > pos THEN avail - pos ELSE 0

\* infile.read(n) at position pos of a file with avail bytes: the length read
ReadLen(n, pos, avail) ==
    LET rest == IF avail > pos THEN avail - pos ELSE 0
    IN  IF n < 0 THEN rest ELSE IF n < rest THEN n ELSE rest

\* is_final_chunk with > for >=
IsFinalChunk_Strict(off, len, file_size) ==
    off + len > file_size

\* is_final_chunk = (offset + len(chunk)) >= file_size
IsFinalChunk(off, len, file_size) ==
    off + len >= file_size

\* resume=True
Resume_Always(off) ==
    TRUE

\* resume=(offset > 0)
Resume(off) ==
    off > 0

\* _adjust_chunk_size without the bounding of line 139
AdjustChunkSize_Unbounded(c, kb, bytes, upload_time, current_chunk_size_bytes) ==
    IF ~c.adaptive_chunking \/ upload_time <= 0
    THEN <<kb, bytes>>
    ELSE LET ideal_chunk_size_kb ==
                 RatMul(RatMul(Rat(current_chunk_size_bytes, KB), Rat(1, upload_time)),
                        Rat(c.target_upload_time, 1))
             new_chunk_size_kb == RatMul(RatAdd(kb, ideal_chunk_size_kb), Rat(1, 2))
         IN  <<new_chunk_size_kb, RatInt(RatMul(new_chunk_size_kb, Rat(KB, 1)))>>

\* _adjust_chunk_size without the test of self.adaptive_chunking
AdjustChunkSize_AlwaysAdaptive(c, kb, bytes, upload_time, current_chunk_size_bytes) ==
    IF upload_time <= 0
    THEN <<kb, bytes>>
    ELSE LET ideal_chunk_size_kb ==
                 RatMul(RatMul(Rat(current_chunk_size_bytes, KB), Rat(1, upload_time)),
                        Rat(c.target_upload_time, 1))
             bounded_chunk_size_kb ==
                 RatMax(Rat(c.min_chunk_size_kb, 1),
                        RatMin(Rat(c.max_chunk_size_kb, 1),
                               RatMul(RatAdd(kb, ideal_chunk_size_kb), Rat(1, 2))))
         IN  <<bounded_chunk_size_kb, RatInt(RatMul(bounded_chunk_size_kb, Rat(KB, 1)))>>

\* _adjust_chunk_size with old_chunk_size_kb = current_chunk_kb, the length of
\* the chunk just sent
AdjustChunkSize_FromChunkLength(c, kb, bytes, upload_time, current_chunk_size_bytes) ==
    IF ~c.adaptive_chunking \/ upload_time <= 0
    THEN <<kb, bytes>>
    ELSE LET current_chunk_kb == Rat(current_chunk_size_bytes, KB)
             ideal_chunk_size_kb ==
                 RatMul(RatMul(current_chunk_kb, Rat(1, upload_time)),
                        Rat(c.target_upload_time, 1))
             bounded_chunk_size_kb ==
                 RatMax(Rat(c.min_chunk_size_kb, 1),
                        RatMin(Rat(c.max_chunk_size_kb, 1),
                               RatMul(RatAdd(current_chunk_kb, ideal_chunk_size_kb), Rat(1, 2))))
         IN  <<bounded_chunk_size_kb, RatInt(RatMul(bounded_chunk_size_kb, Rat(KB, 1)))>>

\* _adjust_chunk_size: the new <<chunk_size_kb, chunk_size_bytes>>
AdjustChunkSize(c, kb, bytes, upload_time, current_chunk_size_bytes) ==
    IF ~c.adaptive_chunking \/ upload_time <= 0
    THEN <<kb, bytes>>
    ELSE LET current_chunk_kb == Rat(current_chunk_size_bytes, KB)
             current_speed_kb_s == RatMul(current_chunk_kb, Rat(1, upload_time))
             ideal_chunk_size_kb == RatMul(current_speed_kb_s, Rat(c.target_upload_time, 1))
             old_chunk_size_kb == kb
             new_chunk_size_kb == RatMul(RatAdd(old_chunk_size_kb, ideal_chunk_size_kb), Rat(1, 2))
             bounded_chunk_size_kb ==
                 RatMax(Rat(c.min_chunk_size_kb, 1),
                        RatMin(Rat(c.max_chunk_size_kb, 1), new_chunk_size_kb))
         IN  <<bounded_chunk_size_kb, RatInt(RatMul(bounded_chunk_size_kb, Rat(KB, 1)))>>

\* The log of remote calls with one more call of a kind
Call(log, kind) ==
    IF log # <<>> /\ log[Len(log)] = kind THEN log ELSE Append(log, kind)

(***************************************************************************)
(* Initial state: main has parsed its arguments, nothing is constructed.   *)
(***************************************************************************)
Init ==
    /\ pc = "construct"
    /\ cfg \in Configs
    /\ file \in Files \cup
          UNION { { [kind |-> "file", size |-> n, avail |-> a] : a \in AvailSizes(n) } :
                    n \in FileSizes(cfg.chunk_size_kb * KB,
                                     IF cfg.adaptive_chunking THEN MaxAdaptiveChunks
                                                              ELSE MaxChunks) }
    /\ chunk_size_kb = Rat(0, 1)
    /\ chunk_size_bytes = 0
    /\ offset = 0
    /\ chunk = NoChunk
    /\ sent = <<>>
    /\ acked = 0
    /\ attempt = 0
    /\ delay = 0
    /\ slept = <<>>
    /\ inflight = {}
    /\ elapsed = 0
    /\ send_time = 0
    /\ failures = 0
    /\ refreshed = FALSE
    /\ last_exception = NoError
    /\ token = NoToken
    /\ npolls = 0
    /\ pollKinds = {}
    /\ finalized = "no"
    /\ path = NoPath
    /\ refetched = NoAnswer
    /\ response = NoResponse
    /\ token_deleted = FALSE
    /\ calls = <<>>
    /\ rp = ChunkRetry
    /\ history = <<>>
    /\ invoked = 0
    /\ ret = NoReturn
    /\ entry_type = ""
    /\ mime_type = None
    /\ subcalls = <<>>
    /\ entry_id = ""
    /\ category = "none"
    /\ entry_args = DefaultArgs
    /\ payload = NoPayload
    /\ uploads = 0
    /\ other = NoUploader
    /\ err = NoError
    /\ result = "running"
    /\ record = NoRecord
    /\ logfile = <<>>

\* cli.main: except Exception as exc: ... return 1
Fail(e) ==
    /\ pc' = "done"
    /\ err' = e
    /\ result' = 1

(***************************************************************************)
(* KalturaUploader.__init__ (with _get_kaltura_client's session.start).    *)
(***************************************************************************)
Construct ==
    /\ pc = "construct"
    /\ IF cfg.chunk_size_kb < 1
       THEN /\ Fail(Exc("ValueError"))
            /\ UNCHANGED <<sizeVars, calls>>
       ELSE \E started \in BOOLEAN :
              /\ calls' = Call(calls, "session.start")
              /\ IF started
                 THEN /\ chunk_size_kb' = Rat(cfg.chunk_size_kb, 1)
                      /\ chunk_size_bytes' = RatInt(RatMul(Rat(cfg.chunk_size_kb, 1), Rat(KB, 1)))
                      /\ pc' = "upload_file"
                      /\ UNCHANGED <<err, result>>
                 ELSE /\ Fail(KalturaException("INVALID_KS"))
                      /\ UNCHANGED sizeVars
    /\ UNCHANGED <<wrapVars, logVars, cfg, instanceVars, file, token_deleted, transferVars, retryVars, finalizeVars, entryVars>>

(***************************************************************************)
(* upload_file: the checks and _create_upload_token (lines 157-169).       *)
(***************************************************************************)
\* What uploadToken.add followed by the verifying uploadToken.get can do.
CreateTokenOutcomes ==
    {NoError, KalturaException("SERVICE_FORBIDDEN"), Exc("RequestException"),
     KalturaException("UPLOAD_TOKEN_NOT_FOUND")}

\* upload_file without the test for an empty file
PathCheck_NoEmptyCheck(f) ==
    IF f.kind = "missing" THEN Exc("FileNotFoundError")
    ELSE IF f.kind # "file" THEN Exc("ValueError")
    ELSE NoError

\* Lines 157-164: os.path.exists, os.path.isfile, file_size == 0
PathCheck(f) ==
    IF f.kind = "missing" THEN Exc("FileNotFoundError")
    ELSE IF f.kind # "file" THEN Exc("ValueError")
    ELSE IF f.size = 0 THEN Exc("ValueError")
    ELSE NoError

UploadFileStart ==
    /\ pc = "upload_file"
    /\ IF PathCheck(file) # NoError
       THEN Fail(PathCheck(file)) /\ UNCHANGED <<offset, calls>>
       ELSE \E e \in CreateTokenOutcomes, at \in {"add", "get"} :
              /\ e = NoError => at = "get"
              /\ calls' = IF at = "add" THEN Call(calls, "uploadToken.add")
                          ELSE Call(Call(calls, "uploadToken.add"), "uploadToken.get (verify)")
              /\ IF e = NoError
                 THEN /\ offset' = 0
                      /\ pc' = "transfer"
                      /\ UNCHANGED <<err, result>>
                 ELSE Fail(e) /\ UNCHANGED offset
    /\ UNCHANGED <<wrapVars, logVars, cfg, instanceVars, file, token_deleted, sizeVars, chunk, sent, acked, inflight, elapsed, send_time, failures,
                   retryVars, finalizeVars, entryVars>>

(***************************************************************************)
(* upload_file: the transfer loop (lines 172-190) and the retry wrapper    *)
(* around _upload_chunk (decorators.py:26-42).                             *)
(***************************************************************************)
\* while offset < file_size: chunk = infile.read(...); if not chunk: break;
\* is_final_chunk = ...; start_time = time.time(); self._upload_chunk(...):
\* the wrapper starts with delay = initial_delay, attempt = 1.
ReadChunk ==
    /\ pc = "transfer"
    /\ LET len == ReadLen(chunk_size_bytes, offset, file.avail)
       IN  IF offset < file.size /\ len > 0
           THEN /\ chunk' = [offset |-> offset, len |-> len, resume |-> Resume(offset),
                             final |-> IsFinalChunk(offset, len, file.size)]
                /\ sent' = Append(sent, chunk')
                /\ attempt' = 1
                /\ delay' = rp.initial_delay
                /\ slept' = <<>>
                /\ pc' = "post_chunk"
                /\ UNCHANGED failures
           ELSE /\ pc' = "finalize"
                /\ failures' = 0
                /\ chunk' = NoChunk
                /\ attempt' = 0
                /\ delay' = 0
                /\ slept' = <<>>
                /\ UNCHANGED sent
    /\ elapsed' = 0
    /\ send_time' = 0
    /\ invoked' = 0
    /\ history' = <<>>
    /\ UNCHANGED <<rp, ret, logVars, cfg, instanceVars, file, token_deleted, calls, sizeVars, offset, acked, inflight, finalizeVars, entryVars,
                   err, result>>

\* _upload_chunk, lines 253-258: the fields of the multipart request for
\* the arguments c; fileData is the chunk's bytes, given as the part of the
\* file they were read from.
Fields(c) ==
    [resume |-> IF c.resume THEN "1" ELSE "0",
     resumeAt |-> c.offset,
     finalChunk |-> IF c.final THEN "1" ELSE "0",
     fileData |-> [from |-> c.offset, len |-> c.len]]

\* _upload_chunk: the fields are built and self.session.post(upload_url,
\* ...) is issued, once per invocation by the wrapper
PostChunk ==
    /\ pc = "post_chunk"
    /\ inflight' = inflight \cup {Len(sent)}
    /\ calls' = Call(calls, "uploadToken.upload")
    /\ invoked' = invoked + 1
    /\ history' = Append(history, Fields(chunk))
    /\ pc' = "await_chunk"
    /\ UNCHANGED <<rp, ret, logVars, cfg, instanceVars, file, token_deleted, sizeVars, offset, chunk, sent, acked, elapsed, send_time, failures,
                   retryVars, finalizeVars, entryVars, err, result>>

\* What one attempt of _upload_chunk ends with: a return, a
\* requests.RequestException (connection error, timeout, HTTP error status),
\* or an error of another kind (an OSError that is no RequestException).
ChunkOutcomes ==
    {NoError, Exc("RequestException"), Exc("OSError")}

\* Sum of a sequence of numbers
RECURSIVE Sum(_)
Sum(q) ==
    IF q = <<>> THEN 0 ELSE Head(q) + Sum(Tail(q))

\* A wrapper that leaves its loop after the last attempt instead of raising
WrapperVerdict_Swallow(e, n) ==
    IF e = NoError THEN "return"
    ELSE IF Retryable(e) /\ n # max_attempts THEN "sleep"
    ELSE IF Retryable(e) THEN "return"
    ELSE "raise"

\* A wrapper whose except clause catches every exception and, what it is
\* not to retry, drops
WrapperVerdict_DropsOthers(e, n) ==
    IF e = NoError THEN "return"
    ELSE IF Retryable(e) /\ n # max_attempts THEN "sleep"
    ELSE IF Retryable(e) THEN "raise"
    ELSE "return"

\* A wrapper that sleeps and tries again after every retryable error
WrapperVerdict_NeverGivesUp(e, n) ==
    IF e = NoError THEN "return"
    ELSE IF Retryable(e) THEN "sleep"
    ELSE "raise"

\* The verdict of the wrapper around _upload_chunk
WrapperVerdict(e, n) ==
    RetryVerdict(rp, e, n)

\* The post returns or raises, and the wrapper decides. When the wrapper
\* returns: elapsed = time.time() - start_time (the wrapper's sleeps and the
\* time of the attempt that returned), offset advances, _adjust_chunk_size
\* runs, and the loop goes on.
ChunkResponse ==
    /\ pc = "await_chunk"
    /\ inflight' = inflight \ {Len(sent)}
    /\ \E e \in ChunkOutcomes :
         /\ IF Retryable(e)
            THEN failures < MaxFailures /\ failures' = failures + 1
            ELSE UNCHANGED failures
         /\ acked' = IF e = NoError THEN acked + 1 ELSE acked
         /\ IF e = NoError /\ chunk.final
            THEN token_deleted' \in BOOLEAN
            ELSE UNCHANGED token_deleted
         /\ LET v == WrapperVerdict(e, attempt)
            IN  IF v = "return"
                THEN \E net \in NetDurations :
                       /\ send_time' = net
                       /\ elapsed' = Sum(slept) + net
                       /\ offset' = offset + chunk.len
                       /\ LET adj == AdjustChunkSize(cfg, chunk_size_kb, chunk_size_bytes,
                                                     elapsed', chunk.len)
                          IN  /\ chunk_size_kb' = adj[1]
                              /\ chunk_size_bytes' = adj[2]
                       /\ pc' = "transfer"
                       /\ UNCHANGED <<err, result>>
                ELSE IF v = "sleep"
                THEN /\ pc' = "retry_sleep"
                     /\ UNCHANGED <<offset, sizeVars, elapsed, send_time, err, result>>
                ELSE /\ Fail(e)
                     /\ UNCHANGED <<offset, sizeVars, elapsed, send_time>>
    /\ UNCHANGED <<wrapVars, logVars, cfg, instanceVars, file, calls, chunk, sent, retryVars, finalizeVars, entryVars>>

\* time.sleep(delay); delay *= backoff_factor; next attempt
RetrySleep ==
    /\ pc = "retry_sleep"
    /\ slept' = Append(slept, delay)
    /\ delay' = NextDelay(rp, delay)
    /\ attempt' = attempt + 1
    /\ pc' = "post_chunk"
    /\ UNCHANGED <<wrapVars, logVars, cfg, instanceVars, file, token_deleted, calls, sizeVars, transferVars, finalizeVars, entryVars, err, result>>

(***************************************************************************)
(* _finalize_upload_token (lines 296-354), _validate_upload_token_status   *)
(* (356-378), and the try/except of upload_file around them (194-210).     *)
(***************************************************************************)
\* What self.client.partner.get and, on its failure, the session refresh of
\* _get_kaltura_client can do.
ProbeOutcomes ==
    {"alive", "refreshed", "refresh_failed"}

\* A polling loop in which a session refresh uses up the first attempt
FirstPollAttempt_RefreshCounts(p) ==
    IF p = "refreshed" THEN 2 ELSE 1

\* The attempt the polling loop starts with, range(1, max_attempts + 1),
\* whatever the probe before it did.
FirstPollAttempt(p) ==
    1

\* The liveness probe, the refresh on its failure, and the set-up of the
\* polling loop: max_attempts = 5, delay = 1.0, last_exception = None.
FinalizeProbe ==
    /\ pc = "finalize"
    /\ \E p \in ProbeOutcomes :
         /\ calls' = IF p = "alive" THEN Call(calls, "partner.get")
                     ELSE Call(Call(calls, "partner.get"), "session.start (refresh)")
         /\ IF p = "refresh_failed"
            THEN /\ Fail(KalturaException("INVALID_KS"))
                 /\ UNCHANGED <<refreshed, retryVars, last_exception>>
            ELSE /\ refreshed' = (p = "refreshed")
                 /\ attempt' = FirstPollAttempt(p)
                 /\ delay' = finalize_delay
                 /\ slept' = <<>>
                 /\ last_exception' = NoError
                 /\ pc' = "poll"
                 /\ UNCHANGED <<err, result>>
    /\ UNCHANGED <<wrapVars, logVars, cfg, instanceVars, file, token_deleted, sizeVars, transferVars, token, npolls, pollKinds, finalized,
                   entryVars>>

\* What uploadToken.get answers in the polling loop: a token, or an error
\* that the loop's except clause catches.
PollTokens ==
    { [status |-> PARTIAL_UPLOAD, uploadedFileSize |-> offset],
      [status |-> FULL_UPLOAD, uploadedFileSize |-> file.size],
      [status |-> FULL_UPLOAD, uploadedFileSize |-> file.size - 1] }

PollErrors ==
    {KalturaException("UPLOAD_TOKEN_NOT_FOUND"), KalturaException("INTERNAL_SERVERL_ERROR"),
     Exc("RequestException")}

\* _validate_upload_token_status(upload_token, file_size)
ValidateUploadTokenStatus(upload_token, file_size) ==
    upload_token.status = FULL_UPLOAD

\* The kind of a poll's answer
KindOf(e) ==
    IF e.type = "KalturaException" THEN e.code ELSE e.type

\* One iteration of the polling loop. A validated token returns from
\* _finalize_upload_token, and upload_file returns the token id. Otherwise,
\* with attempts left, the loop sleeps; on the last attempt it falls through.
Poll ==
    /\ pc = "poll"
    /\ npolls' = npolls + 1
    /\ calls' = Call(calls, "uploadToken.get (poll)")
    /\ \/ \E t \in PollTokens :
            /\ ~token_deleted
            /\ token' = t
            /\ pollKinds' = pollKinds \cup {"status"}
            /\ UNCHANGED last_exception
            /\ IF ValidateUploadTokenStatus(t, file.size)
               THEN /\ finalized' = "polled"
                    /\ pc' = "upload_returned"
               ELSE /\ UNCHANGED finalized
                    /\ pc' = IF attempt < finalize_max_attempts THEN "poll_sleep"
                                                               ELSE "poll_exhausted"
       \/ \E e \in PollErrors :
            /\ token_deleted => IsTokenNotFound(e)
            /\ last_exception' = e
            /\ pollKinds' = pollKinds \cup {KindOf(e)}
            /\ UNCHANGED <<token, finalized>>
            /\ pc' = IF attempt < finalize_max_attempts THEN "poll_sleep" ELSE "poll_exhausted"
    /\ UNCHANGED <<wrapVars, logVars, cfg, instanceVars, file, token_deleted, sizeVars, transferVars, retryVars, refreshed, entryVars,
                   err, result>>

\* A polling delay that grows by one second
PollBackoff_Linear(d) ==
    d + 1

\* A polling delay that stays what it was
PollBackoff_Constant(d) ==
    d

\* delay *= 2.0
PollBackoff(d) ==
    d * 2

\* time.sleep(delay); delay *= 2.0; next attempt
PollSleep ==
    /\ pc = "poll_sleep"
    /\ slept' = Append(slept, delay)
    /\ delay' = PollBackoff(delay)
    /\ attempt' = attempt + 1
    /\ pc' = "poll"
    /\ UNCHANGED <<wrapVars, logVars, cfg, instanceVars, file, token_deleted, calls, sizeVars, transferVars, finalizeVars, entryVars, err, result>>

\* What _finalize_upload_token raises when the loop has run out
FinalizeRaises(last) ==
    IF last # NoError THEN last ELSE Exc("TokenNotFinalizedError")

\* The auto-finalization test with offset > file_size for offset >= file_size
AutoFinalized_Strict(e, off, file_size) ==
    e.type = "KalturaException" /\ IsTokenNotFound(e) /\ off > file_size

\* The auto-finalization test without the comparison of the offset
AutoFinalized_AnyOffset(e, off, file_size) ==
    e.type = "KalturaException" /\ IsTokenNotFound(e)

\* upload_file's except KalturaException clause: whether the error raised
\* by _finalize_upload_token is taken as the server's auto-finalization
AutoFinalized(e, off, file_size) ==
    e.type = "KalturaException" /\ IsTokenNotFound(e) /\ off >= file_size

\* The loop has run out: _finalize_upload_token raises, and upload_file
\* either takes the error as auto-finalization and returns the token id,
\* or lets it propagate.
PollExhausted ==
    /\ pc = "poll_exhausted"
    /\ LET e == FinalizeRaises(last_exception)
       IN  IF AutoFinalized(e, offset, file.size)
           THEN /\ finalized' = "auto"
                /\ pc' = "upload_returned"
                /\ UNCHANGED <<err, result>>
           ELSE /\ Fail(e)
                /\ UNCHANGED finalized
    /\ UNCHANGED <<wrapVars, logVars, cfg, instanceVars, file, token_deleted, calls, sizeVars, transferVars, retryVars, refreshed,
                   last_exception, token, npolls, pollKinds, entryVars>>

(***************************************************************************)
(* MIME detection and classification (mime_utils.py).                      *)
(***************************************************************************)
\* str.lower() on the pieces of a MIME type
LowerPiece(t) ==
    CASE t = "IMAGE/" -> "image/"
      [] t = "JPEG" -> "jpeg"
      [] t = "Application/" -> "application/"
      [] t = "PDF" -> "pdf"
      [] OTHER -> t

Lower(m) ==
    [i \in 1..Len(m) |-> LowerPiece(m[i])]

\* m.startswith(p)
StartsWith(m, p) ==
    Len(m) >= Len(p) /\ SubSeq(m, 1, Len(p)) = p

\* p in m
Contains(m, p) ==
    \E i \in 1..(Len(m) - Len(p) + 1) : SubSeq(m, i, i + Len(p) - 1) = p

\* mimetypes.guess_type(file_path, strict=False)[0]
GuessType(f) ==
    f.guessed

\* guess_kaltura_entry_type, lines 25-42: the MIME type it classifies. Every
\* exception of magic.from_file falls back to mimetypes.
DetectedMime(f) ==
    IF f.has_magic
    THEN IF f.sniff = "answers" THEN f.content ELSE GuessType(f)
    ELSE GuessType(f)

\* The rules of lines 53-65 with the document rule tried first
KindOfMime_DocumentFirst(m) ==
    IF m = None THEN "data"
    ELSE LET lower == Lower(m)
         IN  IF \/ lower = <<"application/", "pdf">>
                \/ lower = <<"application/", "x-shockwave-flash">>
                \/ StartsWith(lower, <<"application/", "msword">>)
                \/ Contains(lower, <<"application/", "vnd.openxmlformats-officedocument">>)
             THEN "document"
             ELSE IF \/ StartsWith(lower, <<"image/">>)
                     \/ StartsWith(lower, <<"audio/">>)
                     \/ StartsWith(lower, <<"video/">>)
             THEN "media"
             ELSE "data"

\* guess_kaltura_entry_type, lines 44-65: the kind of a MIME type
KindOfMime(m) ==
    IF m = None THEN "data"
    ELSE LET lower == Lower(m)
         IN  IF \/ StartsWith(lower, <<"image/">>)
                \/ StartsWith(lower, <<"audio/">>)
                \/ StartsWith(lower, <<"video/">>)
             THEN "media"
             ELSE IF \/ lower = <<"application/", "pdf">>
                     \/ lower = <<"application/", "x-shockwave-flash">>
                     \/ StartsWith(lower, <<"application/", "msword">>)
                     \/ Contains(lower, <<"application/", "vnd.openxmlformats-officedocument">>)
             THEN "document"
             ELSE "data"

guess_kaltura_entry_type(f) ==
    KindOfMime(DetectedMime(f))

(***************************************************************************)
(* create_kaltura_entry (uploader.py:380-475) and the _create_*_entry      *)
(* sub-calls (477-582).                                                    *)
(***************************************************************************)
\* What the status re-fetch uploadToken.get answers
RefetchTokens ==
    { [status |-> PARTIAL_UPLOAD, uploadedFileSize |-> offset],
      [status |-> FULL_UPLOAD, uploadedFileSize |-> file.size] }

RefetchErrors ==
    {KalturaException("UPLOAD_TOKEN_NOT_FOUND"), KalturaException("INTERNAL_SERVERL_ERROR"),
     Exc("RequestException")}

\* Lines 421-427: the MIME type for the error message, or the exception
\* that the sniffer raised and the except clause there does not catch.
\* (ImportError, OSError, AttributeError) are caught.
RestrictedMime(f) ==
    IF f.has_magic
    THEN IF f.sniff = "answers" THEN [raised |-> "none", mime |-> f.content]
         ELSE IF f.sniff = "OSError" THEN [raised |-> "none", mime |-> GuessType(f)]
         ELSE [raised |-> f.sniff, mime |-> None]
    ELSE [raised |-> "none", mime |-> GuessType(f)]

\* mime_type or 'unknown'
OrUnknown(m) ==
    IF m = None THEN <<"unknown">> ELSE m

\* raise FileTypeRestrictedError(f"The file type '{file_ext}' ({mime_type or 'unknown'}) ...") from e
FileTypeRestrictedError(f, m, e) ==
    [type |-> "FileTypeRestrictedError", code |-> "", args |-> <<f.ext, OrUnknown(m)>>,
     cause |-> KindOf(e)]

\* create_kaltura_entry without the status check of lines 408-413
RefetchVerdict_NoStatusCheck(r, f) ==
    IF r \in RefetchTokens THEN NoError
    ELSE IF r.type = "KalturaException" /\ IsTokenNotFound(r)
    THEN FileTypeRestrictedError(f, RestrictedMime(f).mime, r)
    ELSE r

\* What create_kaltura_entry does with the answer r of its status re-fetch:
\* "verified", or the exception it raises.
RefetchVerdict(r, f) ==
    IF r \in RefetchTokens
    THEN IF r.status # FULL_UPLOAD THEN Exc("RuntimeError") ELSE NoError
    ELSE IF r.type = "KalturaException"
    THEN IF IsTokenNotFound(r)
         THEN LET m == RestrictedMime(f)
              IN  IF m.raised # "none" THEN Exc(m.raised)
                  ELSE FileTypeRestrictedError(f, m.mime, r)
         ELSE r
    ELSE r

\* cli.py:149-152: upload_file has returned the token id, and main goes on
\* to call create_kaltura_entry. What the transfer's last retry wrapper and
\* _finalize_upload_token kept in their locals is gone.
UploadFileReturned ==
    /\ pc = "upload_returned"
    /\ pc' = "create_entry"
    /\ attempt' = 0
    /\ delay' = 0
    /\ slept' = <<>>
    /\ refreshed' = FALSE
    /\ last_exception' = NoError
    /\ token' = NoToken
    /\ npolls' = 0
    /\ pollKinds' = {}
    /\ UNCHANGED <<wrapVars, logVars, cfg, instanceVars, file, token_deleted, calls, sizeVars, transferVars, finalized, entryVars, err, result>>

\* create_kaltura_entry(upload_token_id, file_path, ...): the status
\* re-fetch and what follows from it (lines 401-446).
CreateEntryRefetch ==
    /\ pc = "create_entry"
    /\ \E ft \in FileTypes, sn \in SniffOutcomes, hm \in BOOLEAN :
         /\ hm \/ sn = "answers"
         /\ path' = [ext |-> ft.ext, guessed |-> ft.guessed, content |-> ft.content,
                     sniff |-> sn, has_magic |-> hm]
    /\ calls' = Call(calls, "uploadToken.get (refetch)")
    /\ \E r \in RefetchTokens \cup RefetchErrors :
         /\ token_deleted => (r \in RefetchErrors /\ IsTokenNotFound(r))
         /\ refetched' = IF r \in RefetchTokens THEN [status |-> r.status, error |-> "none"]
                                                ELSE [status |-> "", error |-> KindOf(r)]
         /\ LET v == RefetchVerdict(r, path')
            IN  IF v = NoError
                THEN pc' = "classify" /\ UNCHANGED <<err, result>>
                ELSE Fail(v)
    /\ UNCHANGED <<wrapVars, logVars, cfg, instanceVars, file, token_deleted, sizeVars, transferVars, retryVars, finalizeVars,
                   response, entry_type, mime_type, subcalls, entry_id, category, entry_args, payload>>

\* Lines 453-464: the MIME type for the document mapping, or the exception
\* that the sniffer raised and the except clause there does not catch.
\* (ImportError, OSError) are caught.
EntryMime(f) ==
    LET m == IF f.has_magic
             THEN IF f.sniff = "answers" THEN [raised |-> "none", mime |-> f.content]
                  ELSE IF f.sniff = "OSError" THEN [raised |-> "none", mime |-> GuessType(f)]
                  ELSE [raised |-> f.sniff, mime |-> None]
             ELSE [raised |-> "none", mime |-> GuessType(f)]
    IN  IF m.raised = "none" /\ m.mime = None
        THEN [raised |-> "none", mime |-> <<"application/", "octet-stream">>]
        ELSE m

\* Lines 466-472: the sub-call for an entry type
Dispatch(t) ==
    IF t = "media" THEN "_create_media_entry"
    ELSE IF t = "document" THEN "_create_document_entry"
    ELSE "_create_data_entry"

\* mime_utils.get_document_type(mime_type): PDF 13, SWF 12, DOCUMENT 11
get_document_type(m) ==
    IF m = <<"application/", "pdf">> THEN 13
    ELSE IF m = <<"application/", "x-shockwave-flash">> THEN 12
    ELSE 11

\* A payload without keys
Empty ==
    [k \in {} |-> ""]

\* An optional field that is sent whatever its value
Field_Always(present, key, value) ==
    key :> value

\* if <present>: payload[key] = value
Field(present, key, value) ==
    IF present THEN key :> value ELSE Empty

\* _create_media_entry's payload (lines 481-496)
MediaPayload(file_name, a) ==
    ("service" :> "media") @@ ("action" :> "addFromUploadedFile")
      @@ ("mediaEntry:objectType" :> "KalturaMediaEntry")
      @@ ("mediaEntry:name" :> file_name)
      @@ ("mediaEntry:mediaType" :> 1)
      @@ ("uploadTokenId" :> "upload_token_id")
      @@ ("ks" :> "ks")
      @@ ("format" :> 1)
      @@ Field(a.access_control_id > 0, "mediaEntry:accessControlId", a.access_control_id)
      @@ Field(a.conversion_profile_id > 0, "mediaEntry:conversionProfileId",
               a.conversion_profile_id)
      @@ Field(a.tags # None, "mediaEntry:tags", a.tags)

\* _create_document_entry's payload (lines 512-529)
DocumentPayload(file_name, m, a) ==
    ("service" :> "document") @@ ("action" :> "addFromUploadedFile")
      @@ ("documentEntry:objectType" :> "KalturaDocumentEntry")
      @@ ("documentEntry:name" :> file_name)
      @@ ("documentEntry:documentType" :> get_document_type(m))
      @@ ("uploadTokenId" :> "upload_token_id")
      @@ ("ks" :> "ks")
      @@ ("format" :> 1)
      @@ Field(a.access_control_id > 0, "documentEntry:accessControlId", a.access_control_id)
      @@ Field(a.conversion_profile_id > 0, "documentEntry:conversionProfileId",
               a.conversion_profile_id)
      @@ Field(a.tags # None, "documentEntry:tags", a.tags)

\* _create_data_entry's payload (lines 545-559): it is not given the
\* conversion_profile_id, and always sends entry:conversionProfileId = -1
DataPayload(file_name, a) ==
    ("service" :> "baseEntry") @@ ("action" :> "addFromUploadedFile")
      @@ ("entry:objectType" :> "KalturaDataEntry")
      @@ ("type" :> 6)
      @@ ("entry:name" :> file_name)
      @@ ("entry:conversionProfileId" :> -1)
      @@ ("uploadTokenId" :> "upload_token_id")
      @@ ("ks" :> "ks")
      @@ ("format" :> 1)
      @@ Field(a.access_control_id > 0, "entry:accessControlId", a.access_control_id)
      @@ Field(a.tags # None, "entry:tags", a.tags)

\* The payload of the sub-call that lines 466-472 dispatch to
Payload(subcall, file_name, m, a) ==
    IF subcall = "_create_media_entry" THEN MediaPayload(file_name, a)
    ELSE IF subcall = "_create_document_entry" THEN DocumentPayload(file_name, m, a)
    ELSE DataPayload(file_name, a)

\* Lines 448-472: classification, the MIME type, and the call of the one
\* sub-call, up to its self.session.post.
Classify ==
    /\ pc = "classify"
    /\ entry_type' = guess_kaltura_entry_type(path)
    /\ LET m == EntryMime(path)
       IN  IF m.raised # "none"
           THEN /\ Fail(Exc(m.raised))
                /\ UNCHANGED <<mime_type, subcalls, calls, payload>>
           ELSE /\ mime_type' = m.mime
                /\ subcalls' = Append(subcalls, Dispatch(entry_type'))
                /\ payload' = Payload(Dispatch(entry_type'), path.ext, mime_type', entry_args)
                /\ calls' = Call(calls, "addFromUploadedFile")
                /\ pc' = "post_entry"
                /\ UNCHANGED <<err, result>>
    /\ UNCHANGED <<wrapVars, logVars, cfg, instanceVars, file, token_deleted, sizeVars, transferVars, retryVars, finalizeVars,
                   path, refetched, response, entry_id, category, entry_args>>

\* What the create-entry request ends with: a JSON body with an id, a JSON
\* body without one, a body that is no JSON, an HTTP error status
\* (raise_for_status), or a network error.
EntryIds ==
    {"0_abc", "0_xyz"}

\* response.text[:1000]: the length to which the body is cut for the log
ExcerptLimit ==
    1000

\* Sizes in characters of a response body (of the text of the parsed data)
BodySizes ==
    {2, 1000, 5000}

EntryResponses ==
    { [kind |-> "id", id |-> i, body |-> 2] : i \in EntryIds } \cup
    { [kind |-> "no_id", id |-> "", body |-> n] : n \in BodySizes } \cup
    { [kind |-> k, id |-> "", body |-> 0] : k \in {"not_json", "http_error", "network_error"} }

\* raise RuntimeError(f"Unexpected response: {data}"): the message holds the
\* text of data, all of it
UnexpectedResponse(r) ==
    [type |-> "RuntimeError", code |-> "", args |-> <<"Unexpected response", r.body>>,
     cause |-> "none"]

\* Lines 570-582: the RuntimeError raised from a JSONDecodeError; its message
\* holds the decoder's message, nothing of the body (response.text[:1000]
\* goes to the log)
InvalidResponse(r) ==
    [type |-> "RuntimeError", code |-> "", args |-> <<"Failed to create entry", 0>>,
     cause |-> "JSONDecodeError"]

\* What the sub-call does with the response: NoError (it returns
\* data["id"]) or the exception it raises.
SubcallVerdict(sub, r) ==
    CASE r.kind = "id" -> NoError
      [] r.kind = "no_id" -> UnexpectedResponse(r)
      [] r.kind = "not_json" ->
           IF sub = "_create_data_entry" THEN InvalidResponse(r) ELSE Exc("JSONDecodeError")
      [] r.kind = "http_error" -> Exc("HTTPError")
      [] OTHER -> Exc("RequestException")

\* A retry decorator on the create sub-calls, as on _upload_chunk
EntryRetried_LikeChunks(v, n) ==
    Retryable(v) /\ n < max_attempts

\* Whether the sub-call is invoked again after its n-th invocation raised
\* v: the sub-calls are not decorated and create_kaltura_entry has no loop.
EntryRetried(v, n) ==
    FALSE

\* The sub-call's response; create_kaltura_entry returns the entry id.
EntryResponse ==
    /\ pc = "post_entry"
    /\ \E r \in EntryResponses :
         /\ response' = r
         /\ LET v == SubcallVerdict(subcalls[Len(subcalls)], r)
            IN  IF v = NoError
                THEN /\ entry_id' = r.id
                     /\ pc' = "assign_category"
                     /\ UNCHANGED <<subcalls, err, result>>
                ELSE IF EntryRetried(v, Len(subcalls))
                THEN /\ subcalls' = Append(subcalls, subcalls[Len(subcalls)])
                     /\ UNCHANGED <<pc, entry_id, err, result>>
                ELSE /\ Fail(v)
                     /\ UNCHANGED <<subcalls, entry_id>>
    /\ UNCHANGED <<wrapVars, logVars, cfg, instanceVars, file, token_deleted, calls, sizeVars, transferVars, retryVars, finalizeVars,
                   path, refetched, entry_type, mime_type, category, entry_args, payload>>

(***************************************************************************)
(* assign_category (584-597) and the end of main (cli.py:160-173).         *)
(***************************************************************************)
CategoryIds ==
    {0, 7}

\* What self.client.categoryEntry.add does
CategoryOutcomes ==
    {NoError, KalturaException("CATEGORY_NOT_FOUND"), Exc("RequestException")}

AssignCategory ==
    /\ pc = "assign_category"
    /\ \E category_id \in CategoryIds :
         IF category_id > 0
         THEN /\ calls' = Call(calls, "categoryEntry.add")
              /\ \E e \in CategoryOutcomes :
                   IF e = NoError
                   THEN category' = "assigned" /\ pc' = "done" /\ result' = 0 /\ UNCHANGED err
                   ELSE IF e.type = "KalturaException"
                   THEN category' = "warned" /\ pc' = "done" /\ result' = 0 /\ UNCHANGED err
                   ELSE Fail(e) /\ category' = "failed"
         ELSE /\ category' = "skipped" /\ pc' = "done" /\ result' = 0
              /\ UNCHANGED <<err, calls>>
    /\ UNCHANGED <<wrapVars, logVars, cfg, instanceVars, file, token_deleted, sizeVars, transferVars, retryVars, finalizeVars,
                   path, refetched, response, entry_type, mime_type, subcalls, entry_id, entry_args, payload>>

Next ==
    \/ Construct
    \/ UploadFileStart
    \/ ReadChunk
    \/ PostChunk
    \/ ChunkResponse
    \/ RetrySleep
    \/ FinalizeProbe
    \/ Poll
    \/ PollSleep
    \/ PollExhausted
    \/ UploadFileReturned
    \/ CreateEntryRefetch
    \/ Classify
    \/ EntryResponse
    \/ AssignCategory

Spec == Init /\ [][Next]_vars

\* upload_file on its own, on an uploader just constructed
UploadNext ==
    \/ Construct
    \/ UploadFileStart
    \/ ReadChunk
    \/ PostChunk
    \/ ChunkResponse
    \/ RetrySleep
    \/ FinalizeProbe
    \/ Poll
    \/ PollSleep
    \/ PollExhausted

\* That run when every call the program makes returns (a remote call with
\* an answer or an error, a file read, a sleep): the program always takes
\* its next step.
LiveSpec == Init /\ [][UploadNext]_vars /\ WF_vars(UploadNext)

(***************************************************************************)
(* One uploader used for several uploads, beside a second uploader: the    *)
(* caller calls upload_file again on the instance that has returned from   *)
(* it, and constructs another KalturaUploader in the same process.         *)
(***************************************************************************)
\* An upload_file that starts each call with the size given at construction
ChunkSizeAtCall_Configured(c, size) ==
    [chunk_size_kb |-> Rat(c.chunk_size_kb, 1),
     chunk_size_bytes |-> RatInt(RatMul(Rat(c.chunk_size_kb, 1), Rat(KB, 1)))]

\* The chunk size a call of upload_file starts with: the method reads
\* self.chunk_size_bytes (line 174) as the instance holds it and assigns it
\* nowhere; only __init__ (86-87) and _adjust_chunk_size (141-142) do.
ChunkSizeAtCall(c, size) ==
    size

\* upload_file has returned and is called again, on the same file: its
\* locals start afresh, the instance's attributes stay.
UploadAgain ==
    /\ pc = "upload_returned"
    /\ uploads < MaxUploads - 1
    /\ uploads' = uploads + 1
    /\ pc' = "upload_file"
    /\ LET size == ChunkSizeAtCall(cfg, [chunk_size_kb |-> chunk_size_kb,
                                         chunk_size_bytes |-> chunk_size_bytes])
       IN  /\ chunk_size_kb' = size.chunk_size_kb
           /\ chunk_size_bytes' = size.chunk_size_bytes
    /\ offset' = 0
    /\ chunk' = NoChunk
    /\ sent' = <<>>
    /\ acked' = 0
    /\ inflight' = {}
    /\ elapsed' = 0
    /\ send_time' = 0
    /\ failures' = 0
    /\ attempt' = 0
    /\ delay' = 0
    /\ slept' = <<>>
    /\ refreshed' = FALSE
    /\ last_exception' = NoError
    /\ token' = NoToken
    /\ npolls' = 0
    /\ pollKinds' = {}
    /\ finalized' = "no"
    /\ history' = <<>>
    /\ invoked' = 0
    /\ ret' = NoReturn
    /\ token_deleted' = FALSE
    /\ UNCHANGED <<rp, logVars, cfg, other, file, calls, entryVars, err, result>>

\* KalturaUploader(...) a second time, before a call of upload_file on the
\* first uploader: __init__ sets the new instance's own chunk size (86-87).
ConstructOther ==
    /\ pc = "upload_file"
    /\ other = NoUploader
    /\ \E c \in {k \in Configs : k.chunk_size_kb >= 1} :
         other' = [chunk_size_kb |-> Rat(c.chunk_size_kb, 1),
                   chunk_size_bytes |-> RatInt(RatMul(Rat(c.chunk_size_kb, 1), Rat(KB, 1)))]
    /\ calls' = Call(calls, "session.start")
    /\ UNCHANGED <<pc, wrapVars, retryVars, logVars, cfg, uploads, file, token_deleted, sizeVars,
                   transferVars, finalizeVars, entryVars, err, result>>

\* The first call in full; a later call as far as its first read, the step
\* that depends on what the calls before it left in the instance.
ReuseNext ==
    \/ uploads = 0 /\ UploadNext
    \/ uploads > 0 /\ UploadFileStart
    \/ uploads > 0 /\ ReadChunk
    \/ UploadAgain
    \/ ConstructOther

\* The uploaders with adaptive chunking, whose chunk size changes in use
ReuseInit ==
    Init /\ cfg.adaptive_chunking

ReuseSpec == ReuseInit /\ [][ReuseNext]_vars

(***************************************************************************)
(* The retry decorator on its own: a function decorated with any of        *)
(* RetryParams is called once, and each invocation of the function         *)
(* returns a value or raises.                                              *)
(***************************************************************************)
\* What invocation i of the decorated function can do: return a value, or
\* raise an exception of its own
OpOutcomes(i) ==
    { [kind |-> "ok", value |-> v, error |-> NoError] : v \in {"v1", "v2"} } \cup
    { [kind |-> "error", value |-> "",
       error |-> [type |-> t, code |-> "", args |-> <<i>>, cause |-> "none"]] :
         t \in {"ConnectionError", "RequestException", "OSError", "KeyError"} }

RetryInit ==
    /\ pc = "wrapper"
    /\ rp \in RetryParams
    /\ history = <<>>
    /\ invoked = 0
    /\ ret = NoReturn
    /\ attempt = 0
    /\ delay = 0
    /\ slept = <<>>
    /\ cfg \in {c \in Configs : c.chunk_size_kb = 2048}
    /\ file \in {f \in Files : f.kind = "missing"}
    /\ token_deleted = FALSE
    /\ calls = <<>>
    /\ chunk_size_kb = Rat(0, 1)
    /\ chunk_size_bytes = 0
    /\ offset = 0
    /\ chunk = NoChunk
    /\ sent = <<>>
    /\ acked = 0
    /\ inflight = {}
    /\ elapsed = 0
    /\ send_time = 0
    /\ failures = 0
    /\ refreshed = FALSE
    /\ last_exception = NoError
    /\ token = NoToken
    /\ npolls = 0
    /\ pollKinds = {}
    /\ finalized = "no"
    /\ path = NoPath
    /\ refetched = NoAnswer
    /\ response = NoResponse
    /\ entry_type = ""
    /\ mime_type = None
    /\ subcalls = <<>>
    /\ entry_id = ""
    /\ category = "none"
    /\ entry_args = DefaultArgs
    /\ payload = NoPayload
    /\ uploads = 0
    /\ other = NoUploader
    /\ err = NoError
    /\ result = "running"
    /\ record = NoRecord
    /\ logfile = <<>>

\* wrapper(*args, **kwargs) is called: delay = initial_delay, and the for
\* loop starts with attempt = 1
WrapperStart ==
    /\ pc = "wrapper"
    /\ delay' = rp.initial_delay
    /\ attempt' = 1
    /\ pc' = "wrapper_loop"
    /\ UNCHANGED <<wrapVars, slept, runVars>>

\* One round of the loop: try: return func(*args, **kwargs), and the
\* except clause; with range(1, max_attempts + 1) used up the loop ends
\* and the wrapper returns None.
WrapperCall ==
    /\ pc = "wrapper_loop"
    /\ IF attempt <= rp.max_attempts
       THEN \E o \in OpOutcomes(invoked + 1) :
              /\ invoked' = invoked + 1
              /\ history' = Append(history, o)
              /\ LET v == RetryVerdict(rp, o.error, attempt)
                 IN  IF v = "return"
                     THEN ret' = [kind |-> "returned", value |-> o.value, error |-> NoError]
                          /\ pc' = "wrapper_done"
                     ELSE IF v = "sleep"
                     THEN pc' = "wrapper_sleep" /\ UNCHANGED ret
                     ELSE ret' = [kind |-> "raised", value |-> "", error |-> o.error]
                          /\ pc' = "wrapper_done"
       ELSE /\ ret' = [kind |-> "returned", value |-> "None", error |-> NoError]
            /\ pc' = "wrapper_done"
            /\ UNCHANGED <<invoked, history>>
    /\ UNCHANGED <<rp, retryVars, runVars>>

\* time.sleep(delay); delay *= backoff_factor; the next round
WrapperSleep ==
    /\ pc = "wrapper_sleep"
    /\ slept' = Append(slept, delay)
    /\ delay' = NextDelay(rp, delay)
    /\ attempt' = attempt + 1
    /\ pc' = "wrapper_loop"
    /\ UNCHANGED <<wrapVars, runVars>>

RetryNext ==
    \/ WrapperStart
    \/ WrapperCall
    \/ WrapperSleep

RetrySpec == RetryInit /\ [][RetryNext]_vars

(***************************************************************************)
(* The classifier on its own: guess_kaltura_entry_type is called once on   *)
(* a file of any content type and any name, with the sniffer present or    *)
(* not, answering or raising.                                              *)
(***************************************************************************)
\* The pieces MIME types are made of
MimePieces ==
    {"image/", "audio/", "video/", "application/", "pdf", "x-shockwave-flash", "msword",
     "vnd.openxmlformats-officedocument", "x", "IMAGE/"}

\* The texts of up to n pieces
TextsUpTo(n) ==
    UNION { [1..k -> MimePieces] : k \in 0..n }

\* What the type not under test is: nothing, a media type, a document type
FewMimeTypes ==
    {None, <<"image/", "x">>, <<"application/", "pdf">>}

\* The sniffer: what it does, and whether it is there at all
Sniffers ==
    {x \in SniffOutcomes \X BOOLEAN : x[2] \/ x[1] = "answers"}

\* The classifier is tried on files of which the type of the content or
\* the type guessed from the name is any text, the other one of the few.
ClassifyInit ==
    /\ pc = "classifier"
    /\ \/ \E g \in TextsUpTo(MaxMimePieces), c \in FewMimeTypes, x \in Sniffers :
            path = [ext |-> "", guessed |-> g, content |-> c, sniff |-> x[1], has_magic |-> x[2]]
       \/ \E g \in FewMimeTypes, c \in TextsUpTo(MaxMimePieces), x \in Sniffers :
            path = [ext |-> "", guessed |-> g, content |-> c, sniff |-> x[1], has_magic |-> x[2]]
    /\ entry_type = ""
    /\ mime_type = None
    /\ rp = ChunkRetry
    /\ history = <<>>
    /\ invoked = 0
    /\ ret = NoReturn
    /\ attempt = 0
    /\ delay = 0
    /\ slept = <<>>
    /\ cfg \in {c \in Configs : c.chunk_size_kb = 2048}
    /\ file \in {f \in Files : f.kind = "missing"}
    /\ token_deleted = FALSE
    /\ calls = <<>>
    /\ chunk_size_kb = Rat(0, 1)
    /\ chunk_size_bytes = 0
    /\ offset = 0
    /\ chunk = NoChunk
    /\ sent = <<>>
    /\ acked = 0
    /\ inflight = {}
    /\ elapsed = 0
    /\ send_time = 0
    /\ failures = 0
    /\ refreshed = FALSE
    /\ last_exception = NoError
    /\ token = NoToken
    /\ npolls = 0
    /\ pollKinds = {}
    /\ finalized = "no"
    /\ refetched = NoAnswer
    /\ response = NoResponse
    /\ subcalls = <<>>
    /\ entry_id = ""
    /\ category = "none"
    /\ entry_args = DefaultArgs
    /\ payload = NoPayload
    /\ uploads = 0
    /\ other = NoUploader
    /\ err = NoError
    /\ result = "running"
    /\ record = NoRecord
    /\ logfile = <<>>

\* guess_kaltura_entry_type(file_path): mime_type is its local variable as
\* detected (before lower()), entry_type what it returns
ClassifierCall ==
    /\ pc = "classifier"
    /\ mime_type' = DetectedMime(path)
    /\ entry_type' = guess_kaltura_entry_type(path)
    /\ pc' = "classified"
    /\ UNCHANGED <<wrapVars, retryVars, logVars, cfg, instanceVars, file, token_deleted, calls, sizeVars, transferVars,
                   finalizeVars, path, refetched, response, subcalls, entry_id, category,
                   entry_args, payload,
                   err, result>>

ClassifyNext ==
    ClassifierCall

ClassifySpec == ClassifyInit /\ [][ClassifyNext]_vars

(***************************************************************************)
(* Logging (logging_config.py): one logging call, logging.error(msg,       *)
(* *args), on its way through KalturaLogFilter and the file handler. A     *)
(* text is the sequence of its pieces: "ks=", a piece "v" of characters    *)
(* that are neither & nor white space, "&", " ", and in a template the     *)
(* placeholder "%s".                                                       *)
(***************************************************************************)
LogPieces ==
    {"ks=", "v", "&", " "}

\* The texts of up to n pieces out of ps
LogTexts(ps, n) ==
    UNION { [1..k -> ps] : k \in 0..n }

\* How many placeholders a template has
RECURSIVE Placeholders(_)
Placeholders(t) ==
    IF t = <<>> THEN 0
    ELSE (IF Head(t) = "%s" THEN 1 ELSE 0) + Placeholders(Tail(t))

\* [^&\s]: a piece that the value of a ks= parameter can go on with
IsValuePiece(x) ==
    x \notin {"&", " "}

\* The text after the run of value pieces it starts with
RECURSIVE SkipValue(_)
SkipValue(t) ==
    IF t # <<>> /\ IsValuePiece(Head(t)) THEN SkipValue(Tail(t)) ELSE t

\* KS_REGEX.sub("ks=<REDACTED>", t) with KS_REGEX = ks=[^&\s]+
RECURSIVE KsSub(_)
KsSub(t) ==
    IF t = <<>> THEN <<>>
    ELSE IF Head(t) = "ks=" /\ Len(t) >= 2 /\ IsValuePiece(t[2])
    THEN <<"ks=", "<REDACTED>">> \o KsSub(SkipValue(Tail(t)))
    ELSE <<Head(t)>> \o KsSub(Tail(t))

\* KalturaLogFilter.filter(record): the record as the filter leaves it
FilterRecord(r) ==
    IF r.msg # <<>> THEN [r EXCEPT !.msg = KsSub(r.msg)] ELSE r

\* msg % args: each placeholder replaced by the text of its argument
RECURSIVE Interpolate(_, _)
Interpolate(t, as) ==
    IF t = <<>> THEN <<>>
    ELSE IF Head(t) = "%s" THEN Head(as) \o Interpolate(Tail(t), Tail(as))
    ELSE <<Head(t)>> \o Interpolate(Tail(t), as)

\* LogRecord.getMessage(): msg = str(self.msg); if self.args: msg = msg %
\* self.args. A count of placeholders other than the count of arguments is
\* a TypeError, on which the handler drops the record.
GetMessage(r) ==
    IF r.args = <<>> THEN [ok |-> TRUE, text |-> r.msg]
    ELSE IF Placeholders(r.msg) # Len(r.args) THEN [ok |-> FALSE, text |-> <<>>]
    ELSE [ok |-> TRUE, text |-> Interpolate(r.msg, r.args)]

\* A logging call: a template without a placeholder and no argument, or
\* a template with one placeholder and one argument. Among them are the
\* call of uploader.py:290, logging.error("...: %s", e) with the text of e
\* holding the request URL and its ks parameter, and the call of
\* decorators.py:33-40, whose f-string holds the text of e in the template.
LogCall(r) ==
    \/ \E m \in LogTexts(LogPieces, MaxLogPieces) :
         r = [msg |-> m, args |-> <<>>]
    \/ \E m \in LogTexts(LogPieces \cup {"%s"}, MaxLogPieces), a \in LogTexts(LogPieces, MaxLogPieces) :
         /\ Placeholders(m) = 1
         /\ r = [msg |-> m, args |-> <<a>>]

LogInit ==
    /\ pc = "log_call"
    /\ LogCall(record)
    /\ logfile = <<>>
    /\ rp = ChunkRetry
    /\ history = <<>>
    /\ invoked = 0
    /\ ret = NoReturn
    /\ attempt = 0
    /\ delay = 0
    /\ slept = <<>>
    /\ cfg \in {c \in Configs : c.chunk_size_kb = 2048}
    /\ file \in {f \in Files : f.kind = "missing"}
    /\ token_deleted = FALSE
    /\ calls = <<>>
    /\ chunk_size_kb = Rat(0, 1)
    /\ chunk_size_bytes = 0
    /\ offset = 0
    /\ chunk = NoChunk
    /\ sent = <<>>
    /\ acked = 0
    /\ inflight = {}
    /\ elapsed = 0
    /\ send_time = 0
    /\ failures = 0
    /\ refreshed = FALSE
    /\ last_exception = NoError
    /\ token = NoToken
    /\ npolls = 0
    /\ pollKinds = {}
    /\ finalized = "no"
    /\ path = NoPath
    /\ refetched = NoAnswer
    /\ response = NoResponse
    /\ entry_type = ""
    /\ mime_type = None
    /\ subcalls = <<>>
    /\ entry_id = ""
    /\ category = "none"
    /\ entry_args = DefaultArgs
    /\ payload = NoPayload
    /\ uploads = 0
    /\ other = NoUploader
    /\ err = NoError
    /\ result = "running"

\* The file handler's filter: KalturaLogFilter.filter(record)
LogFilter ==
    /\ pc = "log_call"
    /\ record' = FilterRecord(record)
    /\ pc' = "filtered"
    /\ UNCHANGED <<logfile, wrapVars, retryVars, cfg, instanceVars, file, token_deleted, calls, sizeVars,
                   transferVars, finalizeVars, entryVars, err, result>>

\* The file handler formats the record and writes the line
LogEmit ==
    /\ pc = "filtered"
    /\ LET m == GetMessage(record)
       IN  logfile' = IF m.ok THEN Append(logfile, m.text) ELSE logfile
    /\ pc' = "logged"
    /\ UNCHANGED <<record, wrapVars, retryVars, cfg, instanceVars, file, token_deleted, calls, sizeVars,
                   transferVars, finalizeVars, entryVars, err, result>>

LogNext ==
    \/ LogFilter
    \/ LogEmit

LogSpec == LogInit /\ [][LogNext]_vars

(***************************************************************************)
(* The chunks of one upload.                                               *)
(***************************************************************************)
RECURSIVE LenSum(_, _)
\* The lengths of the first n chunks of q, added up
LenSum(q, n) ==
    IF n = 0 THEN 0 ELSE LenSum(q, n - 1) + q[n].len

\* The chunks sent with finalChunk true
FinalChunks ==
    {i \in 1..Len(sent) : sent[i].final}

\* The offsets of the chunks sent start at 0, are contiguous and strictly
\* increasing
ContiguousOffsets ==
    \A i \in 1..Len(sent) :
        /\ sent[i].offset = LenSum(sent, i - 1)
        /\ i = 1 => sent[i].offset = 0
        /\ i > 1 => sent[i].offset > sent[i - 1].offset

\* The transfer loop of upload_file has ended and finalization is next
TransferEnded ==
    pc = "finalize"

\* C1, as amended: the chunks sent by upload_file have strictly increasing,
\* contiguous offsets starting at 0, each chunk's offset being the sum of
\* the lengths of the earlier chunks; finalChunk is true on exactly the
\* chunks whose offset + length reaches the file size, which is at most
\* one chunk and then the last one sent, and it is exactly one chunk
\* whenever the transfer loop ends with offset >= file size.
C1_ChunkOffsetsAndFinalFlag ==
    /\ ContiguousOffsets
    /\ \A i \in 1..Len(sent) :
          /\ sent[i].final <=> (sent[i].offset + sent[i].len >= file.size)
          /\ sent[i].final => i = Len(sent)
    /\ Cardinality(FinalChunks) <= 1
    /\ (TransferEnded /\ offset >= file.size) => Cardinality(FinalChunks) = 1

\* A three-chunk transfer has ended with the whole file sent
C1_Witness ==
    /\ TransferEnded
    /\ Len(sent) = 3
    /\ offset = file.size
    /\ sent[3].final

\* C1 as stated: whenever the transfer of a non-empty file has ended, the
\* offsets were contiguous from 0 and exactly one chunk carried finalChunk.
C1_ExactlyOneFinalChunk ==
    TransferEnded =>
        /\ ContiguousOffsets
        /\ Cardinality(FinalChunks) = 1

\* C2: with adaptive chunking off, a fully readable file of size F and a
\* chunk size of C bytes is sent as exactly ceil(F/C) chunks, chunk k
\* (from 0) at offset k*C, only the last one marked final; 10 MB in 2 MB
\* chunks is 5 chunks at offsets 0, 2097152, 4194304, 6291456, 8388608.
C2_FixedSizeChunks ==
    (TransferEnded /\ ~cfg.adaptive_chunking /\ file.avail >= file.size) =>
        LET C == cfg.chunk_size_kb * KB
            F == file.size
        IN  /\ Len(sent) = (F + C - 1) \div C
            /\ \A k \in 0..(Len(sent) - 1) :
                  /\ sent[k + 1].offset = k * C
                  /\ sent[k + 1].final <=> (k = Len(sent) - 1)
            /\ (F = 10485760 /\ C = 2097152) =>
                  [i \in 1..Len(sent) |-> sent[i].offset]
                      = <<0, 2097152, 4194304, 6291456, 8388608>>

\* The 10 MB file has been sent in five 2 MB chunks
C2_Witness ==
    /\ TransferEnded
    /\ ~cfg.adaptive_chunking
    /\ cfg.chunk_size_kb = 2048
    /\ file.size = 10485760
    /\ file.avail = file.size
    /\ Len(sent) = 5

\* C3: the send of chunk N+1 never starts before the remote service has
\* accepted chunk N, whatever retries and sleeps that took, and no two
\* chunk sends are in flight at the same time: every chunk but the newest
\* has been accepted, and only the newest can be in flight.
C3_OneChunkAtATime ==
    /\ Cardinality(inflight) <= 1
    /\ inflight \subseteq {Len(sent)}
    /\ acked <= Len(sent)
    /\ Len(sent) <= acked + 1
    /\ inflight # {} => acked = Len(sent) - 1

\* The second chunk is in flight on its third attempt, after two sleeps
C3_Witness ==
    /\ pc = "await_chunk"
    /\ Len(sent) = 2
    /\ inflight = {2}
    /\ acked = 1
    /\ attempt = 3
    /\ slept = <<1, 2>>

(***************************************************************************)
(* Finalization.                                                           *)
(***************************************************************************)
\* C4: _finalize_upload_token returns successfully only on a poll whose
\* token is in status FULL_UPLOAD with uploadedFileSize equal to the
\* expected file size.
C4_ReturnsOnFullUploadOfExpectedSize ==
    (pc = "upload_returned" /\ finalized = "polled") =>
        /\ token.status = FULL_UPLOAD
        /\ token.uploadedFileSize = file.size

\* C5: when all 5 polling attempts are used and no poll confirmed
\* completion, _finalize_upload_token raises TokenNotFinalizedError,
\* whatever the polls answered.
C5_ExhaustionRaisesTokenNotFinalized ==
    /\ pc = "poll_exhausted" =>
          FinalizeRaises(last_exception).type = "TokenNotFinalizedError"
    /\ (pc = "done" /\ npolls = finalize_max_attempts /\ finalized = "no") =>
          err.type = "TokenNotFinalizedError"

\* _finalize_upload_token has used its polls and raised token-not-found
\* to upload_file
FinalizeRaisedNotFound ==
    /\ pc \in {"upload_returned", "done"}
    /\ npolls = finalize_max_attempts
    /\ finalized # "polled"
    /\ IsTokenNotFound(last_exception)

\* C6: when _finalize_upload_token raises token-not-found and the offset
\* uploaded is at least the declared file size, upload_file does not
\* raise: it takes the token as auto-finalized and returns the token id.
C6_NotFoundAfterFullTransferIsSuccess ==
    (FinalizeRaisedNotFound /\ offset >= file.size) =>
        /\ pc = "upload_returned"
        /\ finalized = "auto"
        /\ result = "running"
        /\ err = NoError

\* Every poll raised token-not-found after a transfer of exactly the
\* declared size, and upload_file has returned
C6_Witness ==
    /\ pc = "upload_returned"
    /\ finalized = "auto"
    /\ npolls = finalize_max_attempts
    /\ pollKinds = {"UPLOAD_TOKEN_NOT_FOUND"}
    /\ offset = file.size
    /\ Len(sent) = 2

\* C7: when the remote service finalized and deleted the token after the
\* last chunk (every uploadToken.get from then on reports token not found)
\* and all declared bytes were uploaded, the token-not-found of
\* the status re-fetch in create_kaltura_entry does not fail the run.
C7_AutoFinalizedRunSurvivesRefetch ==
    (/\ token_deleted
     /\ finalized = "auto"
     /\ offset >= file.size
     /\ refetched.error = "UPLOAD_TOKEN_NOT_FOUND") =>
        result # 1

(***************************************************************************)
(* Entry creation.                                                         *)
(***************************************************************************)
\* C8: when the status re-fetch raises token-not-found, the call fails with
\* FileTypeRestrictedError naming the extension and the MIME type, with
\* the remote error as its cause, and no create-entry call is issued.
C8_NotFoundRaisesFileTypeRestricted ==
    refetched.error = "UPLOAD_TOKEN_NOT_FOUND" =>
        /\ pc = "done"
        /\ result = 1
        /\ err.type = "FileTypeRestrictedError"
        /\ Len(err.args) = 2
        /\ err.args[1] = path.ext
        /\ err.args[2] \in {path.content, path.guessed, <<"unknown">>}
        /\ err.cause = "UPLOAD_TOKEN_NOT_FOUND"
        /\ subcalls = <<>>

\* C9: a create-entry call is issued only after the status re-fetch of
\* create_kaltura_entry returned a token in status FULL_UPLOAD; a token in
\* any other status makes the call fail with RuntimeError, the
\* entry-creation error, and no create-entry call is issued.
C9_CreateOnlyAfterFullUpload ==
    /\ subcalls # <<>> => refetched.status = FULL_UPLOAD
    /\ (refetched # NoAnswer /\ refetched.error = "none" /\ refetched.status # FULL_UPLOAD) =>
          /\ pc = "done"
          /\ result = 1
          /\ err.type = "RuntimeError"
          /\ subcalls = <<>>

\* The re-fetch returned FULL_UPLOAD and a create-entry call is out
C9_Witness ==
    /\ pc = "post_entry"
    /\ refetched.status = FULL_UPLOAD
    /\ Len(subcalls) = 1

\* C10: on a confirmed FULL_UPLOAD token create_kaltura_entry invokes
\* exactly one create sub-call, the one of the classified kind (media,
\* document, anything else data), and returns the id that sub-call
\* returned.
C10_ExactlyOneSubcallByKind ==
    (refetched.status = FULL_UPLOAD /\ pc # "classify") =>
        /\ Len(subcalls) = 1
        /\ subcalls[1] = Dispatch(guess_kaltura_entry_type(path))
        /\ (pc = "done" /\ result = 0) => entry_id \in EntryIds

\* C11: for each entry kind, a create-entry response without an "id" or
\* one that cannot be parsed makes entry creation fail with the one
\* unexpected-response error kind (RuntimeError), and no entry id is
\* returned.
C11_UnexpectedResponseForEveryKind ==
    response.kind \in {"no_id", "not_json"} =>
        /\ pc = "done"
        /\ result = 1
        /\ err.type = "RuntimeError"
        /\ entry_id = ""

\* C12: when the create-entry response has no "id", the error raised holds
\* an excerpt of the body no longer than a fixed constant, whatever the
\* size of the body.
C12_BoundedExcerpt ==
    (response.kind = "no_id" /\ pc = "done") =>
        /\ err.type = "RuntimeError"
        /\ err.args[2] <= ExcerptLimit

\* C13: a failure of the category assignment, of whatever kind, is never
\* fatal: once an entry was created the run completes successfully.
C13_CategoryFailureNotFatal ==
    (pc = "done" /\ entry_id # "") => result = 0

(***************************************************************************)
(* The run as a whole.                                                     *)
(***************************************************************************)
\* C14: a missing path, a path that is no regular file and an empty file
\* make upload_file fail at once with no remote call issued (no token, no
\* chunk, no poll), a chunk size below 1 KB is rejected at construction
\* before any session is started, and none of these failures is retried.
C14_LocalPreconditionErrors ==
    /\ cfg.chunk_size_kb < 1 =>
          /\ calls = <<>>
          /\ pc = "done" => (result = 1 /\ err.type = "ValueError")
    /\ (file.kind # "file" \/ file.size = 0) =>
          /\ \A i \in 1..Len(calls) : calls[i] = "session.start"
          /\ sent = <<>> /\ npolls = 0 /\ attempt = 0 /\ slept = <<>>
          /\ pc \in {"construct", "upload_file", "done"}
          /\ (pc = "done" /\ cfg.chunk_size_kb >= 1 /\ err.code # "INVALID_KS") =>
                /\ result = 1
                /\ err.type = IF file.kind = "missing" THEN "FileNotFoundError"
                                                       ELSE "ValueError"

\* upload_file has rejected an empty file after the session was started
C14_Witness ==
    /\ pc = "done"
    /\ file.kind = "file"
    /\ file.size = 0
    /\ err.type = "ValueError"
    /\ calls = <<"session.start">>

\* The step of the run that a remote call belongs to: 0 the session, 1 the
\* creation of the token, 2 the chunk sends, 3 finalization (its probe, a
\* session refresh, the polls), 4 the creation of the entry (its status
\* re-fetch, the create request), 5 the category assignment.
StepOf(kind) ==
    CASE kind = "session.start" -> 0
      [] kind \in {"uploadToken.add", "uploadToken.get (verify)"} -> 1
      [] kind = "uploadToken.upload" -> 2
      [] kind \in {"partner.get", "session.start (refresh)", "uploadToken.get (poll)"} -> 3
      [] kind \in {"uploadToken.get (refetch)", "addFromUploadedFile"} -> 4
      [] OTHER -> 5

\* A call of that kind has been issued
Called(kind) ==
    \E i \in 1..Len(calls) : calls[i] = kind

\* C15: the remote calls of a run occur in the order create-token, chunk
\* sends, finalize polls, create-entry, category assignment, no step being
\* returned to, and a call of a later step is issued only if the steps
\* before it did not fail: polls only when every chunk sent was accepted,
\* the entry's calls only when upload_file returned and the create
\* request only on a FULL_UPLOAD re-fetch, the category assignment only
\* when an entry id was returned; a run that has ended, by a failure or
\* not, takes no further step.
C15_StepsInOrderAndAbortOnFailure ==
    /\ \A i, j \in 1..Len(calls) :
          i < j => (StepOf(calls[i]) <= StepOf(calls[j]) /\ calls[i] # calls[j])
    /\ Called("uploadToken.upload") => Called("uploadToken.get (verify)")
    /\ (Called("partner.get") \/ Called("uploadToken.get (poll)")) =>
          (Called("uploadToken.add") /\ acked = Len(sent))
    /\ Called("uploadToken.get (refetch)") => finalized \in {"polled", "auto"}
    /\ Called("addFromUploadedFile") => refetched.status = FULL_UPLOAD
    /\ Called("categoryEntry.add") => (Called("addFromUploadedFile") /\ entry_id # "")
    /\ pc = "done" => ~ENABLED Next

\* A run has gone through every step
C15_Witness ==
    /\ pc = "done"
    /\ result = 0
    /\ Len(sent) = 2
    /\ calls = <<"session.start", "uploadToken.add", "uploadToken.get (verify)",
                 "uploadToken.upload", "partner.get", "uploadToken.get (poll)",
                 "uploadToken.get (refetch)", "addFromUploadedFile", "categoryEntry.add">>

\* C16: a run issues at most one create-entry call, and a run that ends
\* successfully has issued exactly one.
C16_OneCreateEntryCall ==
    /\ Len(subcalls) <= 1
    /\ Called("addFromUploadedFile") <=> (subcalls # <<>>)
    /\ (pc = "done" /\ result = 0) => Len(subcalls) = 1

\* A run has ended successfully after one create-entry call
C16_Witness ==
    /\ pc = "done"
    /\ result = 0
    /\ subcalls = <<"_create_document_entry">>
    /\ entry_id = "0_xyz"

(***************************************************************************)
(* The retry decorator.                                                    *)
(***************************************************************************)
RECURSIVE Pow(_, _)
\* b to the power n
Pow(b, n) ==
    IF n = 0 THEN 1 ELSE b * Pow(b, n - 1)

\* Invocation i of the function raised an error of the retryable set
Retried(i) ==
    history[i].kind = "error" /\ Caught(rp, history[i].error)

\* The function failed k times with a retryable error and then succeeded
FailsThenSucceeds(k) ==
    /\ Len(history) = k + 1
    /\ \A i \in 1..k : Retried(i)
    /\ history[k + 1].kind = "ok"

\* C17: when the function fails with a retryable error exactly k <
\* max_attempts times and then succeeds, the wrapper returns the function's
\* value, has invoked it exactly k + 1 times, and has slept exactly k
\* times, the i-th sleep (from 0) being initial_delay * backoff_factor^i.
C17_RetriesThenReturns ==
    \A k \in 0..MaxRetryAttempts :
        (k < rp.max_attempts /\ FailsThenSucceeds(k)) =>
            /\ pc = "wrapper_done"
            /\ ret = [kind |-> "returned", value |-> history[k + 1].value, error |-> NoError]
            /\ invoked = k + 1
            /\ Len(slept) = k
            /\ \A i \in 0..(k - 1) :
                  slept[i + 1] = rp.initial_delay * Pow(rp.backoff_factor, i)

\* Two retryable failures, sleeps of 3 and 6, and the third invocation's
\* value returned
C17_Witness ==
    /\ pc = "wrapper_done"
    /\ FailsThenSucceeds(2)
    /\ rp.initial_delay = 3
    /\ rp.backoff_factor = 2
    /\ slept = <<3, 6>>
    /\ ret.value = "v2"

\* C18: an error that is not of the retryable set propagates out of the
\* wrapper when it first occurs, at whatever attempt: the function is not
\* invoked again and no sleep follows.
C18_OtherErrorsPropagate ==
    \A i \in 1..Len(history) :
        (history[i].kind = "error" /\ ~Caught(rp, history[i].error)) =>
            /\ i = Len(history)
            /\ pc = "wrapper_done"
            /\ ret = [kind |-> "raised", value |-> "", error |-> history[i].error]
            /\ invoked = i
            /\ Len(slept) = i - 1

\* A KeyError at the third attempt, after two retried failures, has
\* propagated
C18_Witness ==
    /\ pc = "wrapper_done"
    /\ rp.exceptions = {"RequestException"}
    /\ Len(history) = 3
    /\ Retried(1) /\ Retried(2)
    /\ history[3].error.type = "KeyError"
    /\ ret.kind = "raised"
    /\ Len(slept) = 2

\* C19: when every attempt fails with a retryable error, the wrapper
\* invokes the function exactly max_attempts times, sleeps between the
\* attempts but not after the last, and the last attempt's error
\* propagates as it is.
C19_ExhaustionPropagatesLastError ==
    (/\ pc = "wrapper_done"
     /\ history # <<>>
     /\ \A i \in 1..Len(history) : Retried(i)) =>
        /\ invoked = rp.max_attempts
        /\ Len(history) = rp.max_attempts
        /\ Len(slept) = rp.max_attempts - 1
        /\ ret = [kind |-> "raised", value |-> "", error |-> history[Len(history)].error]
        /\ ret.error.args = <<rp.max_attempts>>

\* Three attempts, all failed with a retryable error, two sleeps
C19_Witness ==
    /\ pc = "wrapper_done"
    /\ rp.max_attempts = 3
    /\ Len(history) = 3
    /\ \A i \in 1..3 : Retried(i)
    /\ ret.kind = "raised"
    /\ Len(slept) = 2

\* A chunk send has failed for good with a network error
ChunkSendExhausted ==
    /\ pc = "done"
    /\ acked < Len(sent)
    /\ err.type = "RequestException"

\* C20, as amended: a chunk send whose every attempt fails with a transient
\* network error is attempted exactly 5 times, the wrapper sleeping 1s, 2s,
\* 4s and 8s between the attempts and not after the fifth, whose failure
\* is fatal.
C20_ChunkRetrySchedule ==
    /\ ChunkSendExhausted =>
          /\ invoked = 5
          /\ attempt = 5
          /\ slept = <<1, 2, 4, 8>>
          /\ result = 1
    /\ pc \in {"post_chunk", "await_chunk", "retry_sleep"} =>
          /\ invoked <= 5
          /\ Len(slept) <= 4
          /\ \A i \in 1..Len(slept) : slept[i] = <<1, 2, 4, 8>>[i]

\* The second chunk of a file has failed five times
C20_Witness ==
    /\ ChunkSendExhausted
    /\ Len(sent) = 2
    /\ invoked = 5
    /\ slept = <<1, 2, 4, 8>>

\* C20 as stated: the delays slept before the failure is fatal are 1s, 2s,
\* 4s, 8s, 16s, over at most 5 attempts.
C20_FiveDelays ==
    ChunkSendExhausted =>
        /\ invoked <= 5
        /\ slept = <<1, 2, 4, 8, 16>>

(***************************************************************************)
(* The chunk size.                                                         *)
(***************************************************************************)
\* KalturaUploader.__init__ has returned: an uploader exists
Constructed ==
    /\ pc # "construct"
    /\ calls # <<>>
    /\ ~(calls = <<"session.start">> /\ err = KalturaException("INVALID_KS"))

\* A chunk size, in KB and in bytes, within the bounds of configuration c
WithinBounds(c, kb, bytes) ==
    /\ RatLeq(Rat(c.min_chunk_size_kb, 1), kb)
    /\ RatLeq(kb, Rat(c.max_chunk_size_kb, 1))
    /\ c.min_chunk_size_kb * KB <= bytes
    /\ bytes <= c.max_chunk_size_kb * KB

\* The step of upload_file that follows a chunk send that succeeded:
\* elapsed, offset += len(chunk), _adjust_chunk_size
ResizeStep ==
    pc = "await_chunk" /\ pc' = "transfer"

\* C21: in every state of an uploader, from construction on and whatever
\* configuration the constructor accepted, the chunk size lies within
\* [min_chunk_size_kb, max_chunk_size_kb].
C21_ChunkSizeAlwaysWithinBounds ==
    Constructed => WithinBounds(cfg, chunk_size_kb, chunk_size_bytes)

\* C22: the resize step never produces a chunk size outside
\* [min_chunk_size_kb, max_chunk_size_kb]: whenever it runs in adaptive
\* mode on a positive duration, and whenever it changes the chunk size at
\* all, the size it leaves is within the bounds, whatever the size was
\* before, the duration observed and the length of the chunk.
C22_ResizeStaysWithinBounds ==
    [][ResizeStep /\ \/ cfg.adaptive_chunking /\ elapsed' > 0
                     \/ chunk_size_kb' # chunk_size_kb
                     \/ chunk_size_bytes' # chunk_size_bytes
          => WithinBounds(cfg, chunk_size_kb', chunk_size_bytes')]_vars

\* Two chunks were sent in adaptive mode, the second of a length other than
\* the first's, and the resize step after it ran on a positive duration
\* and left the chunk size at a bound
C22_Witness ==
    /\ cfg.adaptive_chunking
    /\ pc = "transfer"
    /\ acked = 2
    /\ Len(sent) = 2
    /\ sent[1].len # sent[2].len
    /\ elapsed > 0
    /\ chunk_size_kb \in {Rat(cfg.min_chunk_size_kb, 1), Rat(cfg.max_chunk_size_kb, 1)}

(***************************************************************************)
(* Classification.                                                         *)
(***************************************************************************)
\* Rule 1 of the classification: the type starts with image/, audio/ or video/
IsMediaType(m) ==
    m # <<>> /\ m[1] \in {"image/", "audio/", "video/"}

\* Rule 2: the type is application/pdf or application/x-shockwave-flash,
\* starts with application/msword, or has
\* application/vnd.openxmlformats-officedocument somewhere in it
IsDocumentType(m) ==
    \/ m \in {<<"application/", "pdf">>, <<"application/", "x-shockwave-flash">>}
    \/ Len(m) >= 2 /\ m[1] = "application/" /\ m[2] = "msword"
    \/ \E i \in 1..(Len(m) - 1) :
          m[i] = "application/" /\ m[i + 1] = "vnd.openxmlformats-officedocument"

\* C23: the classifier maps the detected MIME type, read without regard to
\* case, to a kind by the rules in order: a media type is media; otherwise
\* a document type is document; anything else, and no detected type at
\* all, is data.
C23_ClassificationRules ==
    pc = "classified" =>
        LET m == Lower(mime_type)
        IN  /\ IsMediaType(m) => entry_type = "media"
            /\ ~IsMediaType(m) /\ IsDocumentType(m) => entry_type = "document"
            /\ ~IsMediaType(m) /\ ~IsDocumentType(m) => entry_type = "data"
            /\ mime_type = None => entry_type = "data"

\* The sniffer failed and the name gave a type to which both rules apply:
\* the first rule decided
C23_Witness ==
    /\ pc = "classified"
    /\ path.has_magic /\ path.sniff = "MagicException"
    /\ mime_type = <<"image/", "application/", "vnd.openxmlformats-officedocument">>
    /\ entry_type = "media"

\* The MIME type that the fallbacks give for a file: the sniffed type, else
\* the type guessed from the name, else application/octet-stream
FallbackMime(f) ==
    LET m == IF f.has_magic /\ f.sniff = "answers" THEN f.content ELSE f.guessed
    IN  IF m = None THEN <<"application/", "octet-stream">> ELSE m

\* C24: no failure of the sniffer escapes: once create_kaltura_entry has
\* verified a FULL_UPLOAD token and is past its classification, it has the
\* kind and the MIME type that the fallbacks give and has made a sub-call
\* with them, whatever the sniffer did.
C24_NoSniffingFailureEscapes ==
    /\ refetched.status = FULL_UPLOAD
    /\ pc \in {"post_entry", "assign_category", "done"}
    => /\ Len(subcalls) = 1
       /\ mime_type = FallbackMime(path)
       /\ entry_type = KindOfMime(IF path.has_magic /\ path.sniff = "answers"
                                  THEN path.content ELSE path.guessed)

(***************************************************************************)
(* Termination of upload_file.                                             *)
(***************************************************************************)
\* upload_file has returned the token id or has raised
UploadFileEnded ==
    pc \in {"upload_returned", "done"}

\* C25: every upload_file call ends, by returning or by raising, when every
\* call it makes returns: a chunk is sent at most 5 times, finalize polls at
\* most 5 times, and every iteration of the transfer loop moves the offset
\* forward.
C25_UploadFileTerminates ==
    /\ [](invoked <= 5 /\ npolls <= 5)
    /\ [][ResizeStep => offset' > offset]_vars
    /\ (pc = "upload_file") ~> UploadFileEnded

\* upload_file has returned after more than one chunk and five polls, with
\* the four sleeps between them
C25_Witness ==
    /\ pc = "upload_returned"
    /\ Len(sent) >= 2
    /\ slept = <<1, 2, 4, 8>>
    /\ npolls = 5

(***************************************************************************)
(* Redaction of the session token in the log.                              *)
(***************************************************************************)
\* A text that holds the value of a session token: ks= followed by a piece
\* of a value
HasSessionToken(t) ==
    \E i \in 1..(Len(t) - 1) : t[i] = "ks=" /\ t[i + 1] \notin {"&", " ", "<REDACTED>"}

\* C26: no line of the log file holds a session-token value, whether the
\* value came in the template of the logging call or in a formatting
\* argument.
C26_NoSessionTokenInLogFile ==
    \A i \in 1..Len(logfile) : ~HasSessionToken(logfile[i])

(***************************************************************************)
(* The fields of the chunk requests.                                       *)
(***************************************************************************)
\* A chunk send is under way
Sending ==
    pc \in {"post_chunk", "await_chunk", "retry_sleep"}

\* C27: every request of a chunk send carries resumeAt equal to the offset
\* of the chunk, which is the file offset of the loop, and resume = "0" for
\* the first chunk (offset 0) and "1" for every later one; and every attempt
\* of a chunk sends the same bytes with the same resumeAt, resume and
\* finalChunk as the first.
C27_RequestFieldsOfAChunk ==
    Sending =>
        /\ Len(history) = invoked
        /\ chunk = sent[Len(sent)]
        /\ chunk.offset = offset
        /\ \A i \in 1..Len(history) :
              /\ history[i].resumeAt = offset
              /\ history[i].resume = (IF Len(sent) = 1 THEN "0" ELSE "1")
              /\ (history[i].resume = "0") <=> (offset = 0)
              /\ history[i].finalChunk = (IF chunk.final THEN "1" ELSE "0")
              /\ history[i].fileData = [from |-> offset, len |-> chunk.len]
              /\ history[i] = history[1]

\* The second chunk of a file on its third attempt
C27_Witness ==
    /\ pc = "await_chunk"
    /\ Len(history) = 3
    /\ Len(sent) = 2
    /\ history[3].resume = "1"
    /\ history[3].resumeAt = sent[1].len

(***************************************************************************)
(* What changes the chunk size and the offset.                             *)
(***************************************************************************)
\* C28: once the uploader is constructed, the chunk size and the offset
\* change only in the step that follows a chunk send that succeeded, so not
\* in a failed attempt, a backoff sleep or a send that fails for good; and
\* that step leaves the chunk size as it is when adaptive chunking is off
\* or the duration is <= 0.
C28_SizeAndOffsetChangeOnlyAfterSuccess ==
    [][/\ (pc # "construct" /\ <<sizeVars, offset>>' # <<sizeVars, offset>>)
            => ResizeStep /\ acked' = acked + 1
       /\ (ResizeStep /\ (~cfg.adaptive_chunking \/ elapsed' <= 0))
            => sizeVars' = sizeVars]_vars

\* In adaptive mode the step after the first chunk changed the chunk size,
\* and the second chunk failed for good after four sleeps: the size and the
\* offset are those the first chunk left
C28_Witness ==
    /\ ChunkSendExhausted
    /\ cfg.adaptive_chunking
    /\ Len(sent) = 2
    /\ slept = <<1, 2, 4, 8>>
    /\ offset = sent[1].len
    /\ chunk_size_kb # Rat(cfg.chunk_size_kb, 1)

(***************************************************************************)
(* The duration the resize step is given.                                  *)
(***************************************************************************)
\* C29: the duration given to the resize step for a chunk is the duration
\* of the chunk's successful send alone, without the backoff sleeps of
\* the retry loop.
C29_ElapsedIsTheSuccessfulSend ==
    pc = "transfer" /\ Len(sent) > 0 => elapsed = send_time

(***************************************************************************)
(* The resize formula.                                                     *)
(***************************************************************************)
\* x held to [lo, hi]
Clamp(x, lo, hi) ==
    IF RatLeq(x, lo) THEN lo ELSE IF RatLeq(hi, x) THEN hi ELSE x

\* C30: in adaptive mode, with a duration t > 0 and a sent chunk of s bytes,
\* the resize step sets the chunk size, in bytes, to
\*   clamp((previous size + (s / t) * target_upload_time) / 2, min, max)
\* where the previous size is the uploader's chunk size before the step
\* (chunk_size_kb, in bytes) and min and max are the bounds in bytes;
\* chunk_size_kb is that size in KB, chunk_size_bytes its whole bytes.
C30_ResizeFormula ==
    [][ResizeStep /\ cfg.adaptive_chunking /\ elapsed' > 0 =>
         LET previous == RatMul(chunk_size_kb, Rat(KB, 1))
             ideal == Rat(chunk.len * cfg.target_upload_time, elapsed')
             size == Clamp(RatMul(RatAdd(previous, ideal), Rat(1, 2)),
                           Rat(cfg.min_chunk_size_kb * KB, 1),
                           Rat(cfg.max_chunk_size_kb * KB, 1))
         IN  /\ RatMul(chunk_size_kb', Rat(KB, 1)) = size
             /\ chunk_size_bytes' * size[2] <= size[1]
             /\ size[1] < (chunk_size_bytes' + 1) * size[2]]_vars

\* A first chunk shorter than the chunk size was sent in adaptive mode on a
\* positive duration, and the new size lies strictly between the bounds
C30_Witness ==
    /\ cfg.adaptive_chunking
    /\ pc = "transfer"
    /\ Len(sent) = 1
    /\ acked = 1
    /\ elapsed > 0
    /\ sent[1].len # cfg.chunk_size_kb * KB
    /\ chunk_size_kb \notin {Rat(cfg.min_chunk_size_kb, 1), Rat(cfg.max_chunk_size_kb, 1)}

(***************************************************************************)
(* Finalize polling, token creation and the create-entry request.          *)
(***************************************************************************)
\* The delays of the sleeps of a polling loop that ran out, in order
PollDelays ==
    <<1, 2, 4, 8>>

\* _finalize_upload_token returned on a validated token, and every poll
\* before it returned a token too
OnlyStatusPolls ==
    /\ pc = "upload_returned"
    /\ finalized = "polled"
    /\ pollKinds = {"status"}

\* C31: when the n-th poll is the first to return FULL_UPLOAD and the polls
\* before it returned a token in another status, finalize returns after
\* exactly n polls (1 <= n <= 5) and n - 1 sleeps of 1, 2, 4, 8 seconds in
\* that order, and neither polls nor sleeps again.
C31_FirstFullUploadEndsPolling ==
    OnlyStatusPolls =>
        /\ npolls \in 1..finalize_max_attempts
        /\ attempt = npolls
        /\ token.status = FULL_UPLOAD
        /\ slept = SubSeq(PollDelays, 1, npolls - 1)
        /\ ~ENABLED Poll
        /\ ~ENABLED PollSleep

\* PARTIAL_UPLOAD four times, then FULL_UPLOAD on the fifth poll
C31_Witness ==
    /\ OnlyStatusPolls
    /\ npolls = 5
    /\ slept = <<1, 2, 4, 8>>
    /\ token = [status |-> FULL_UPLOAD, uploadedFileSize |-> file.size]

\* C32: when the liveness probe fails and the session is re-established,
\* the refresh precedes the first poll, and the polling loop has its whole
\* budget: it starts at attempt 1, the number of polls made is the attempt
\* number, and it runs out only after 5 polls.
C32_RefreshLeavesTheBudgetWhole ==
    refreshed =>
        /\ Called("session.start (refresh)")
        /\ (pc = "poll" /\ npolls = 0) =>
                /\ attempt = 1
                /\ calls[Len(calls)] = "session.start (refresh)"
        /\ pc = "poll" => attempt = npolls + 1 /\ npolls < finalize_max_attempts
        /\ pc = "poll_sleep" => attempt = npolls /\ npolls < finalize_max_attempts
        /\ pc = "poll_exhausted" => attempt = npolls /\ npolls = finalize_max_attempts

\* Five polls made after a refresh of the session
C32_Witness ==
    /\ refreshed
    /\ pc = "poll_exhausted"
    /\ npolls = 5
    /\ slept = <<1, 2, 4, 8>>

(***************************************************************************)
(* The create-entry request alone: create_kaltura_entry from line 448 on,  *)
(* for every file type and every choice of the optional arguments.         *)
(***************************************************************************)
EntryInit ==
    /\ pc = "classify"
    /\ \E ft \in FileTypes, sn \in SniffOutcomes, hm \in BOOLEAN :
         /\ hm \/ sn = "answers"
         /\ path = [ext |-> ft.ext, guessed |-> ft.guessed, content |-> ft.content,
                    sniff |-> sn, has_magic |-> hm]
    /\ entry_args \in EntryArgs
    /\ payload = NoPayload
    /\ uploads = 0
    /\ other = NoUploader
    /\ rp = ChunkRetry
    /\ history = <<>>
    /\ invoked = 0
    /\ ret = NoReturn
    /\ attempt = 0
    /\ delay = 0
    /\ slept = <<>>
    /\ cfg \in {c \in Configs : c.chunk_size_kb = 2048}
    /\ file = [kind |-> "file", size |-> KB, avail |-> KB]
    /\ token_deleted = FALSE
    /\ calls = <<>>
    /\ chunk_size_kb = Rat(2048, 1)
    /\ chunk_size_bytes = 2048 * KB
    /\ offset = KB
    /\ chunk = NoChunk
    /\ sent = <<>>
    /\ acked = 0
    /\ inflight = {}
    /\ elapsed = 0
    /\ send_time = 0
    /\ failures = 0
    /\ refreshed = FALSE
    /\ last_exception = NoError
    /\ token = NoToken
    /\ npolls = 0
    /\ pollKinds = {}
    /\ finalized = "polled"
    /\ refetched = [status |-> FULL_UPLOAD, error |-> "none"]
    /\ response = NoResponse
    /\ entry_type = ""
    /\ mime_type = None
    /\ subcalls = <<>>
    /\ entry_id = ""
    /\ category = "none"
    /\ record = NoRecord
    /\ logfile = <<>>
    /\ err = NoError
    /\ result = "running"

EntryNext ==
    Classify

EntrySpec == EntryInit /\ [][EntryNext]_vars

\* The payload key of an optional field in the request of an entry type
KeyOf(t, field) ==
    CASE t = "media" -> CASE field = "tags" -> "mediaEntry:tags"
                          [] field = "accessControlId" -> "mediaEntry:accessControlId"
                          [] OTHER -> "mediaEntry:conversionProfileId"
      [] t = "document" -> CASE field = "tags" -> "documentEntry:tags"
                             [] field = "accessControlId" -> "documentEntry:accessControlId"
                             [] OTHER -> "documentEntry:conversionProfileId"
      [] OTHER -> CASE field = "tags" -> "entry:tags"
                    [] field = "accessControlId" -> "entry:accessControlId"
                    [] OTHER -> "entry:conversionProfileId"

\* The create-entry request has been built and posted
RequestSent ==
    pc = "post_entry" /\ payload # NoPayload

\* The payload holds the key exactly when the argument is sent, with the
\* argument as its value
SentIff(present, key, value) ==
    IF present THEN key \in DOMAIN payload /\ payload[key] = value
    ELSE key \notin DOMAIN payload

\* C35 as stated: in the request of every entry type, tags is present only
\* when non-empty, and accessControlId and conversionProfileId only when
\* greater than 0.
C35_OptionalFieldsOnlyWhenPositive ==
    RequestSent =>
        /\ KeyOf(entry_type, "tags") \in DOMAIN payload =>
               payload[KeyOf(entry_type, "tags")] # None
        /\ KeyOf(entry_type, "accessControlId") \in DOMAIN payload =>
               payload[KeyOf(entry_type, "accessControlId")] > 0
        /\ KeyOf(entry_type, "conversionProfileId") \in DOMAIN payload =>
               payload[KeyOf(entry_type, "conversionProfileId")] > 0

\* C35, amended: tags is sent exactly when non-empty and accessControlId
\* exactly when greater than 0, in the request of every entry type, with
\* the argument's value; conversionProfileId is sent exactly when greater
\* than 0 in the media and document requests, and in the data request it is
\* always sent, as -1, whatever the argument.
C35_OptionalFieldsByEntryType ==
    RequestSent =>
        /\ SentIff(entry_args.tags # None, KeyOf(entry_type, "tags"), entry_args.tags)
        /\ SentIff(entry_args.access_control_id > 0, KeyOf(entry_type, "accessControlId"),
                   entry_args.access_control_id)
        /\ IF entry_type \in {"media", "document"}
           THEN SentIff(entry_args.conversion_profile_id > 0,
                        KeyOf(entry_type, "conversionProfileId"),
                        entry_args.conversion_profile_id)
           ELSE SentIff(TRUE, "entry:conversionProfileId", -1)

\* A data entry requested with conversion profile 7, access control 0 and
\* no tags: the two are omitted, the conversion profile goes out as -1
C35_Witness ==
    /\ RequestSent
    /\ entry_type = "data"
    /\ entry_args = [tags |-> None, access_control_id |-> 0, conversion_profile_id |-> 7]
    /\ "entry:tags" \notin DOMAIN payload
    /\ "entry:accessControlId" \notin DOMAIN payload
    /\ payload["entry:conversionProfileId"] = -1

\* C33: when finalize ends with token-not-found and the offset uploaded is
\* less than the declared file size, upload_file returns no token id: it
\* raises an error that is not one of the generic remote errors and that
\* carries the not-found error as its cause.
C33_NotFoundAfterShortTransferIsDistinct ==
    (FinalizeRaisedNotFound /\ offset < file.size) =>
        /\ pc = "done"
        /\ finalized = "no"
        /\ err.type \notin {"none", "KalturaException", "RequestException"}
        /\ err.cause = "UPLOAD_TOKEN_NOT_FOUND"

\* C34: _create_upload_token issues exactly one remote call, uploadToken.add,
\* and succeeds or fails as that call does: no other call belongs to the
\* creation of the token.
C34_TokenCreationIsOneCall ==
    Called("uploadToken.add") => ~Called("uploadToken.get (verify)")

\* C36: upload_file returns a token id only if a finalize poll returned a
\* token in status FULL_UPLOAD, or _finalize_upload_token used its polls
\* and raised token-not-found while the offset uploaded was at least the
\* declared file size; a run in which neither happened ends by raising.
C36_ReturnsOnlyWhenFinalized ==
    /\ pc = "upload_returned" =>
          \/ finalized = "polled" /\ token.status = FULL_UPLOAD
          \/ /\ finalized = "auto"
             /\ npolls = finalize_max_attempts
             /\ IsTokenNotFound(last_exception)
             /\ offset >= file.size
    /\ (pc = "done" /\ finalized = "no") => (result = 1 /\ err # NoError)

\* upload_file has raised after polls that never showed FULL_UPLOAD and
\* whose last error was not token-not-found
C36_Witness ==
    /\ pc = "done"
    /\ finalized = "no"
    /\ npolls = 5
    /\ token.status = PARTIAL_UPLOAD
    /\ err.type = "RequestException"
    /\ offset = file.size

\* C37: upload_file does not return a token id when the last finalize poll
\* that returned a token showed a status other than FULL_UPLOAD; a
\* token-not-found of an earlier poll followed by PARTIAL_UPLOAD polls is
\* not the auto-finalized case.
C37_NoSuccessAfterPartialUpload ==
    pc = "upload_returned" => (token = NoToken \/ token.status = FULL_UPLOAD)

\* C38: when every poll raises token-not-found, _finalize_upload_token makes
\* exactly 5 polls and sleeps 1, 2, 4, 8 seconds between them before the
\* error reaches upload_file; until then upload_file has neither returned
\* nor raised, and only then is the run taken as auto-finalized.
C38_NotFoundDoesNotShortCircuit ==
    pollKinds = {"UPLOAD_TOKEN_NOT_FOUND"} =>
        /\ pc \in {"poll", "poll_sleep", "poll_exhausted", "upload_returned", "done"}
        /\ pc \in {"poll", "poll_sleep"} =>
              /\ npolls < finalize_max_attempts
              /\ slept = SubSeq(PollDelays, 1, Len(slept))
              /\ finalized = "no" /\ err = NoError
        /\ pc \in {"poll_exhausted", "upload_returned", "done"} =>
              /\ npolls = finalize_max_attempts
              /\ slept = PollDelays
        /\ pc = "poll_exhausted" => (finalized = "no" /\ err = NoError)
        /\ pc = "upload_returned" => finalized = "auto"
        /\ pc = "done" => (finalized = "no" /\ IsTokenNotFound(err))

\* Five polls raised token-not-found, four sleeps of 1, 2, 4, 8 seconds lie
\* between them, and upload_file has taken the run as auto-finalized
C38_Witness ==
    /\ pollKinds = {"UPLOAD_TOKEN_NOT_FOUND"}
    /\ pc = "upload_returned"
    /\ finalized = "auto"
    /\ npolls = 5
    /\ slept = <<1, 2, 4, 8>>
    /\ token = NoToken

\* C39: for an uploader constructed with chunk_size_kb >= 1 the chunk size
\* in bytes is at least 1 in every state, so that no read asks for zero
\* bytes and the transfer loop does not end while bytes of the file remain
\* unsent.
C39_ChunkSizeAtLeastOneByte ==
    (Constructed /\ cfg.chunk_size_kb >= 1) =>
        /\ chunk_size_bytes >= 1
        /\ pc \in {"finalize", "poll", "poll_sleep", "poll_exhausted", "upload_returned"} =>
              (offset >= file.size \/ offset >= file.avail)

(***************************************************************************)
(* The chunk size as state of the uploader instance.                       *)
(***************************************************************************)
\* The first read of a call of upload_file
FirstRead ==
    pc = "transfer" /\ sent = <<>> /\ sent' # <<>>

\* C40: the chunk size belongs to the uploader instance, not to one upload:
\* only the constructor and the resize step after a chunk set it, so it is
\* carried from the end of one upload_file call into the next, whose first
\* read asks for the size the last resize left and not for the configured
\* one; and the chunk size of another uploader is changed by no step of
\* this one, nor this one's by the construction of the other.
C40_ChunkSizeIsInstanceState ==
    [][/\ (pc # "construct" /\ ~ResizeStep) =>
              (chunk_size_kb' = chunk_size_kb /\ chunk_size_bytes' = chunk_size_bytes)
       /\ FirstRead => sent'[1].len = ReadLen(chunk_size_bytes, 0, file.avail)
       /\ other # NoUploader => other' = other]_vars

\* The second call on an adaptive uploader configured with 1 KB chunks has
\* read its first chunk: 2 KB, the size the first call's resize left,
\* beside another uploader whose chunk size is 2 MB
C40_Witness ==
    /\ uploads = 1
    /\ cfg.adaptive_chunking
    /\ cfg.chunk_size_kb = 1
    /\ Len(sent) = 1
    /\ sent[1].len = 2 * KB
    /\ chunk_size_bytes = 2 * KB
    /\ other = [chunk_size_kb |-> Rat(2048, 1), chunk_size_bytes |-> 2048 * KB]

=============================================================================
